---- MODULE Spec2Model ----
(***************************************************************************)
(* Chat state synchronisation of the Home component (the page component    *)
(* holding activeChat / chats / unreadCounts, fetchChats, the realtime     *)
(* INSERT handler, handleChatSelect, markChatAsRead and handleMessageSent) *)
(* together with the backend tables it reads and writes.                   *)
(*                                                                         *)
(* JavaScript objects have identity and the handler mutates chat objects   *)
(* in place, so chat objects and their message arrays live in a heap       *)
(* (heapC, heapA) and the React state holds addresses.  An async function  *)
(* suspended at an await is a record of what its closure captured.         *)
(* A React render (and the effects it runs) is taken together with the     *)
(* state update that causes it.                                            *)
(***************************************************************************)
EXTENDS Integers, Sequences, FiniteSets, TLC

\* ---------------------------------------------------------------- bounds
MaxMsgs == 2        \* message ids that can be inserted into the backend
MaxTime == 2        \* the clock runs from 1 to MaxTime
MaxDeliver == 2     \* realtime deliveries of one message id
MaxHandlers == 2    \* INSERT handlers suspended at the sender lookup
MaxMarks == 2       \* watermark writes in flight
MaxText == 2        \* characters of a composed text
MaxFiles == 2       \* files attached to one message
MaxFails == 2       \* transport failures injected in one behaviour

\* ------------------------------------------------------------- constants
ChatIds == {"c1", "c2"}
ChatOrder == <<"c1", "c2">>      \* row order of the chats query
MsgIds == 1..MaxMsgs
Me == "me"
Other == "other"
Authors == {Me, Other}
NoChat == "null"                 \* null chat id / null ref
NoMsg == 0                       \* null message id; "No messages yet"
NoAddr == 0                      \* null object reference
ChatCreatedAt == 0               \* chats.created_at of every chat
DefaultColor == "bg-gray-100 text-gray-600 border-gray-200"

\* rows of chat_participants joined with users(name), per chat
ParticipantNames == [c \in ChatIds |-> <<"me", "other">>]
\* rows of chat_labels joined with labels (id-based schema); a row whose
\* label was deleted carries labels = null
NullLabel == [id |-> "null", name |-> "null", color |-> "null"]
NewLabelRows ==
  [c \in ChatIds |->
     IF c = "c1"
     THEN << [id |-> "l1", name |-> "vip", color |-> "red"], NullLabel >>
     ELSE << >>]
\* rows of chat_labels read through the name-based schema
OldLabelRows ==
  [c \in ChatIds |-> IF c = "c1" THEN << "vip" >> ELSE << "work", "family" >>]

\* users table; every user runs a client, the Sidebar of Me is the one
\* rendered by the Home modelled here
Third == "third"
Users == {Me, Other, Third}
UserOrder == << Me, Other, Third >>
Clients == {Me, Other}
GroupNames == {"team", "crew"}
\* a row of chats with the user_id of its chat_participants rows
NoChatRow == [exists |-> FALSE, isGroup |-> FALSE, name |-> "null", members |-> {}]
\* the chats an account starts with: Me and Other in a group
SeedRow == [exists |-> TRUE, isGroup |-> TRUE, name |-> "team",
            members |-> {Me, Other}]

VARIABLES
  \* backend
  dbMember,            \* chats with a chat_participants row for the user
  dbMsg,               \* messages table: id -> row, or NoRow
  dbLastRead,          \* chat_participants.last_read of the user (0 = null)
  dbHasLastRead,       \* the last_read column exists in this deployment
  now,                 \* wall clock
  delivered,           \* realtime deliveries made of each message id
  fails,               \* transport failures injected so far
  \* React state and refs of Home
  chats,               \* useState chats: sequence of chat object addresses
  activeChat,          \* useState activeChat: address or NoAddr
  unreadCounts,        \* useState unreadCounts (absent key = 0)
  error,               \* useState error
  isLastReadAvailable, \* useState isLastReadAvailable
  lastMessageIdRef,    \* useRef lastMessageIdRef
  activeChatRef,       \* useRef activeChatRef
  subAvail,            \* isLastReadAvailable captured by the subscription
  heapC,               \* chat objects
  heapA,               \* message arrays
  \* suspended async functions and timers
  handlers,            \* INSERT handlers awaiting the sender lookup
  marks,               \* markChatAsRead calls awaiting the update
  fetch,               \* the fetchChats call in flight
  sends,               \* handleSendMessage calls awaiting the insert
  timers,              \* pending setTimeout callbacks, oldest first
  \* chat creation (Sidebar)
  dbChat,              \* chats table with its chat_participants rows
  sidebar,             \* per client: the create handler in flight, error
  sbSnap,              \* chats prop captured by the running handleCreateChat
  \* message composer (ChatWindow)
  draft                \* the handleSendMessage call uploading attachments

vars == << dbMember, dbMsg, dbLastRead, dbHasLastRead, now, delivered, fails,
           chats, activeChat, unreadCounts, error, isLastReadAvailable,
           lastMessageIdRef, activeChatRef, subAvail, heapC, heapA,
           handlers, marks, fetch, sends, timers, dbChat, sidebar, sbSnap,
           draft >>

backendVars == << dbMember, dbMsg, dbLastRead, dbHasLastRead, now >>
heapVars == << chats, activeChat, heapC, heapA, handlers >>

\* --------------------------------------------------------------- helpers
Range(s) == { s[i] : i \in DOMAIN s }
Front(s) == SubSeq(s, 1, Len(s) - 1)
Last(s) == s[Len(s)]
RemoveAt(s, i) == SubSeq(s, 1, i - 1) \o SubSeq(s, i + 1, Len(s))
Pos(s, x) == CHOOSE i \in DOMAIN s : s[i] = x
Count(s, x) == Cardinality({ i \in DOMAIN s : s[i] = x })

RECURSIVE Dedup(_)
Dedup(s) ==
  IF s = << >> THEN << >>
  ELSE LET r == Dedup(Front(s))
       IN IF Last(s) \in Range(r) THEN r ELSE Append(r, Last(s))

NoRow == [chat |-> NoChat, author |-> "none", ts |-> 0,
          content |-> << >>, attachments |-> 0]
Inserted(m) == dbMsg[m] # NoRow
\* message ids are handed out in order
NextMsgId == CHOOSE m \in MsgIds : ~Inserted(m) /\ \A k \in 1..(m - 1) : Inserted(k)
CanInsert == \E m \in MsgIds : ~Inserted(m)

\* rows of messages for chat c, ascending by created_at (ties: by id)
RECURSIVE SortByTs(_)
SortByTs(S) ==
  IF S = {} THEN << >>
  ELSE LET m == CHOOSE x \in S :
                  \A y \in S : dbMsg[x].ts < dbMsg[y].ts
                               \/ (dbMsg[x].ts = dbMsg[y].ts /\ x <= y)
       IN << m >> \o SortByTs(S \ {m})
MsgsOfChat(c) == { m \in MsgIds : Inserted(m) /\ dbMsg[m].chat = c }

\* ------------------------------------------------------------------ heap
ChatIdx(snap, c) ==
  IF \E i \in DOMAIN snap : heapC[snap[i]].id = c
  THEN CHOOSE i \in DOMAIN snap :
         heapC[snap[i]].id = c /\ \A j \in 1..(i - 1) : heapC[snap[j]].id # c
  ELSE 0

RECURSIVE HandlerRoots(_)
HandlerRoots(hs) ==
  IF hs = << >> THEN << >>
  ELSE HandlerRoots(Front(hs)) \o Last(hs).snap
       \o (IF Last(hs).act = NoAddr THEN << >> ELSE << Last(hs).act >>)

\* Store the client's object graph: unreachable objects are dropped and the
\* reachable ones are numbered in the order the roots reach them.
\* (\E x \in {e} binds x to the value of e.)
CommitS(ch0, act0, hs0, sn0, hC0, hA0) ==
  \E ch \in {ch0} : \E act \in {act0} : \E hs \in {hs0} : \E sn \in {sn0} :
  \E hC \in {hC0} : \E hA \in {hA0} :
  \E order \in {Dedup(ch \o (IF act = NoAddr THEN << >> ELSE << act >>)
                         \o HandlerRoots(hs) \o sn)} :
  \E aorder \in {Dedup([i \in 1..Len(order) |-> hC[order[i]].messages])} :
  LET newC(a) == IF a = NoAddr THEN NoAddr ELSE Pos(order, a)
  IN /\ heapC' = [i \in 1..Len(order) |->
                    [hC[order[i]] EXCEPT !.messages = Pos(aorder, @)]]
     /\ heapA' = [i \in 1..Len(aorder) |-> hA[aorder[i]]]
     /\ chats' = [i \in DOMAIN ch |-> newC(ch[i])]
     /\ activeChat' = newC(act)
     /\ handlers' = [i \in DOMAIN hs |->
                       [hs[i] EXCEPT !.snap = [j \in DOMAIN @ |-> newC(@[j])],
                                     !.act = newC(@)]]
     /\ sbSnap' = [i \in DOMAIN sn |-> newC(sn[i])]

\* the list held by a running handleCreateChat stays as it is
Commit(ch0, act0, hs0, hC0, hA0) ==
  CommitS(ch0, act0, hs0, sbSnap, hC0, hA0)

\* --------------------------------------------------------- initial state
\* texts of the composer as sequences of characters
Space == " "
Letter == "a"
Texts == UNION { [1..n -> {Space, Letter}] : n \in 0..MaxText }
PlainText == << Letter >>

\* no handleSendMessage call is uploading
IdleDraft ==
  [phase |-> "idle", text |-> << >>, left |-> 0, uploaded |-> 0,
   activeId |-> NoChat, avail |-> TRUE]

IdleFetch ==
  [phase |-> "idle", activeId |-> NoChat, avail |-> TRUE,
   parts |-> [c \in ChatIds |-> -1],
   stage |-> [c \in ChatIds |-> "none"],
   last |-> [c \in ChatIds |-> NoMsg],
   msgs |-> [c \in ChatIds |-> << >>],
   msgsNull |-> [c \in ChatIds |-> FALSE],
   names |-> [c \in ChatIds |-> << >>],
   out |-> [c \in ChatIds |->
             [lastMessage |-> 0, lastMessageTime |-> 0, unreadCount |-> 0,
              participants |-> << >>, labels |-> << >>]]]

\* no create handler running
IdleSidebar ==
  [phase |-> "idle", peer |-> "null", sel |-> {}, name |-> "null",
   chatId |-> NoChat, activeId |-> NoChat, avail |-> TRUE, error |-> "null"]

Init ==
  /\ dbMember \in SUBSET ChatIds
  /\ dbMsg = [m \in MsgIds |-> NoRow]
  /\ dbLastRead = [c \in ChatIds |-> 0]
  /\ dbHasLastRead \in BOOLEAN
  /\ now = 1
  /\ delivered = [m \in MsgIds |-> 0]
  /\ fails = 0
  /\ chats = << >>
  /\ activeChat = NoAddr
  /\ unreadCounts = [c \in ChatIds |-> 0]
  /\ error = "null"
  /\ isLastReadAvailable = TRUE
  /\ lastMessageIdRef = NoMsg
  /\ activeChatRef = NoChat
  /\ subAvail = TRUE
  /\ heapC = << >>
  /\ heapA = << >>
  /\ handlers = << >>
  /\ marks = << >>
  /\ fetch = IdleFetch
  /\ sends = << >>
  /\ timers = << >>
  /\ draft = IdleDraft
  /\ dbChat = [c \in ChatIds |-> IF c \in dbMember THEN SeedRow ELSE NoChatRow]
  /\ sidebar = [u \in Clients |-> IdleSidebar]
  /\ sbSnap = << >>

\* ------------------------------------------------------- backend actions
Tick ==
  /\ now < MaxTime
  /\ now' = now + 1
  /\ UNCHANGED << dbChat, sidebar, dbMember, dbMsg, dbLastRead, dbHasLastRead, draft, delivered, fails,
                  chats, activeChat, unreadCounts, error, isLastReadAvailable,
                  lastMessageIdRef, activeChatRef, subAvail, heapC, heapA, sbSnap,
                  handlers, marks, fetch, sends, timers >>

\* another user's client inserts a message row (its created_at is that
\* client's clock, which may lag)
OtherInsert(c, ts) ==
  /\ CanInsert
  /\ dbMsg' = [dbMsg EXCEPT ![NextMsgId] = [chat |-> c, author |-> Other, ts |-> ts,
                  content |-> PlainText, attachments |-> 0]]
  /\ UNCHANGED << dbChat, sidebar, dbMember, dbLastRead, dbHasLastRead, draft, now, delivered, fails,
                  chats, activeChat, unreadCounts, error, isLastReadAvailable,
                  lastMessageIdRef, activeChatRef, subAvail, heapC, heapA, sbSnap,
                  handlers, marks, fetch, sends, timers >>

\* the user's chat_participants row of chat c is deleted in the backend
Leave(c) ==
  /\ c \in dbMember
  /\ dbMember' = dbMember \ {c}
  /\ dbChat' = [dbChat EXCEPT ![c].members = @ \ {Me}]
  /\ UNCHANGED << sidebar, dbMsg, dbLastRead, dbHasLastRead, draft, now, delivered, fails,
                  chats, activeChat, unreadCounts, error, isLastReadAvailable,
                  lastMessageIdRef, activeChatRef, subAvail, heapC, heapA, sbSnap,
                  handlers, marks, fetch, sends, timers >>

\* the deployment's schema is changed during the session: from now on every
\* request that names last_read fails with the missing-column error
DropColumn ==
  /\ dbHasLastRead
  /\ dbHasLastRead' = FALSE
  /\ UNCHANGED << dbChat, sidebar, dbMember, dbMsg, dbLastRead, draft, now, delivered, fails,
                  chats, activeChat, unreadCounts, error, isLastReadAvailable,
                  lastMessageIdRef, activeChatRef, subAvail, heapC, heapA, sbSnap,
                  handlers, marks, fetch, sends, timers >>

\* ------------------------------------------------------- markChatAsRead
\* (variant: markChatAsRead without the isLastReadAvailable guard)
MarkIssue_Unguarded(avail, c) == << [chat |-> c, ts |-> now] >>

\* markChatAsRead(chatId) as called from a closure that captured
\* isLastReadAvailable = avail: the update requests it issues (0 or 1)
MarkIssue(avail, c) ==
  IF avail THEN << [chat |-> c, ts |-> now] >> ELSE << >>

\* the update answers: success, or the missing-column error
MarkDone(i) ==
  /\ i \in DOMAIN marks
  /\ marks' = RemoveAt(marks, i)
  /\ IF ~dbHasLastRead
     THEN /\ isLastReadAvailable' = FALSE
          /\ UNCHANGED << dbChat, sidebar, dbMember, dbMsg, dbLastRead, dbHasLastRead, draft, now,
                          delivered, fails, chats, activeChat, unreadCounts,
                          error, lastMessageIdRef, activeChatRef, subAvail,
                          heapC, heapA, sbSnap, handlers, fetch, sends, timers >>
     ELSE LET c == marks[i].chat
              idx == ChatIdx(chats, c)
              hC1 == IF idx = 0 THEN heapC
                     ELSE Append(heapC, [heapC[chats[idx]] EXCEPT !.unreadCount = 0])
              ch1 == IF idx = 0 THEN chats
                     ELSE [chats EXCEPT ![idx] = Len(heapC) + 1]
          IN /\ dbLastRead' = IF c \in dbMember
                              THEN [dbLastRead EXCEPT ![c] = marks[i].ts]
                              ELSE dbLastRead
             /\ unreadCounts' = [unreadCounts EXCEPT ![c] = 0]
             /\ subAvail' = isLastReadAvailable
             /\ Commit(ch1, activeChat, handlers, hC1, heapA)
             /\ UNCHANGED << dbChat, sidebar, dbMember, dbMsg, dbHasLastRead, draft, now, delivered,
                             fails, error, isLastReadAvailable,
                             lastMessageIdRef, activeChatRef, fetch, sends,
                             timers >>

\* the update answers with an error that does not mention last_read
MarkFail(i) ==
  /\ i \in DOMAIN marks
  /\ fails < MaxFails
  /\ fails' = fails + 1
  /\ marks' = RemoveAt(marks, i)
  /\ UNCHANGED << dbChat, sidebar, dbMember, dbMsg, dbLastRead, dbHasLastRead, draft, now, delivered,
                  chats, activeChat, unreadCounts, error, isLastReadAvailable,
                  lastMessageIdRef, activeChatRef, subAvail, heapC, heapA, sbSnap,
                  handlers, fetch, sends, timers >>

\* ----------------------------------------------------- handleChatSelect
\* the user clicks chat c in the sidebar; the render that follows runs the
\* activeChat effect when the activeChat object changed
Select(c) ==
  /\ ChatIdx(chats, c) # 0
  /\ LET a == chats[ChatIdx(chats, c)]
         unread == heapC[a].unreadCount
         changed == a # activeChat
         bySelect == IF unread > 0 THEN MarkIssue(isLastReadAvailable, c) ELSE << >>
         byEffect == IF changed /\ unread > 0
                     THEN MarkIssue(isLastReadAvailable, c) ELSE << >>
     IN /\ Len(marks) + Len(bySelect) + Len(byEffect) <= MaxMarks
        /\ marks' = marks \o bySelect \o byEffect
        /\ activeChatRef' = IF changed THEN c ELSE activeChatRef
        /\ subAvail' = IF changed THEN isLastReadAvailable ELSE subAvail
        /\ Commit(chats, a, handlers, heapC, heapA)
  /\ UNCHANGED << dbChat, sidebar, dbMember, dbMsg, dbLastRead, dbHasLastRead, draft, now, delivered,
                  fails, unreadCounts, error, isLastReadAvailable,
                  lastMessageIdRef, fetch, sends, timers >>

\* ------------------------------------------ realtime INSERT on messages
\* what the handler does before its await; the three early returns leave
\* everything as it is
\* (variant: a handler without the just-sent check)
Suppressed_NoCheck(m) == FALSE

Suppressed(m) == lastMessageIdRef = m
ChatLoaded(m) == ChatIdx(chats, dbMsg[m].chat) # 0
MessageExists(m) ==
  m \in Range(heapA[heapC[chats[ChatIdx(chats, dbMsg[m].chat)]].messages])

\* (variant: a handler that goes on without having found the chat)
Deliver_NoChatCheck(m) ==
  /\ Inserted(m)
  /\ delivered[m] < MaxDeliver
  /\ delivered[m] > 0 \/ \A k \in MsgIds : k > m => delivered[k] = 0
  /\ delivered' = [delivered EXCEPT ![m] = @ + 1]
  /\ IF Suppressed(m) \/ (ChatLoaded(m) /\ MessageExists(m))
     THEN UNCHANGED << dbChat, sidebar, chats, activeChat, heapC, heapA, sbSnap, handlers >>
     ELSE /\ Len(handlers) < MaxHandlers
          /\ Commit(chats, activeChat,
                    Append(handlers, [msg |-> m, snap |-> chats,
                                      act |-> activeChat, avail |-> subAvail]),
                    heapC, heapA)
  /\ UNCHANGED << dbChat, sidebar, dbMember, dbMsg, dbLastRead, dbHasLastRead, draft, now, fails,
                  unreadCounts, error, isLastReadAvailable, lastMessageIdRef,
                  activeChatRef, subAvail, marks, fetch, sends, timers >>

\* the INSERT event of message m arrives: the early returns, or the sender
\* lookup is issued
Deliver(m) ==
  /\ Inserted(m)
  /\ delivered[m] < MaxDeliver
  /\ delivered[m] > 0 \/ \A k \in MsgIds : k > m => delivered[k] = 0
  /\ delivered' = [delivered EXCEPT ![m] = @ + 1]
  /\ IF Suppressed(m) \/ ~ChatLoaded(m) \/ MessageExists(m)
     THEN UNCHANGED << dbChat, sidebar, chats, activeChat, heapC, heapA, sbSnap, handlers >>
     ELSE /\ Len(handlers) < MaxHandlers
          /\ Commit(chats, activeChat,
                    Append(handlers, [msg |-> m, snap |-> chats,
                                      act |-> activeChat, avail |-> subAvail]),
                    heapC, heapA)
  /\ UNCHANGED << dbChat, sidebar, dbMember, dbMsg, dbLastRead, dbHasLastRead, draft, now, fails,
                  unreadCounts, error, isLastReadAvailable, lastMessageIdRef,
                  activeChatRef, subAvail, marks, fetch, sends, timers >>

\* the sender lookup fails: the handler returns
HandlerFail(i) ==
  /\ i \in DOMAIN handlers
  /\ fails < MaxFails
  /\ fails' = fails + 1
  /\ Commit(chats, activeChat, RemoveAt(handlers, i), heapC, heapA)
  /\ UNCHANGED << dbChat, sidebar, dbMember, dbMsg, dbLastRead, dbHasLastRead, draft, now, delivered,
                  unreadCounts, error, isLastReadAvailable, lastMessageIdRef,
                  activeChatRef, subAvail, marks, fetch, sends, timers >>

\* the sender lookup succeeds: the rest of the handler runs on the chats and
\* activeChat its closure captured, then React renders
HandlerDone(i) ==
  /\ i \in DOMAIN handlers
  /\ LET h == handlers[i]
         m == h.msg
         c == dbMsg[m].chat
         ts == dbMsg[m].ts
         other == dbMsg[m].author # Me
         o == h.snap[ChatIdx(h.snap, c)]
         inc == other /\ activeChatRef # c
     IN
     \* updatedChats[chatIndex].messages.push(newMessage) etc.
     \E hA1 \in {[heapA EXCEPT ![heapC[o].messages] = Append(@, m)]} :
     \E hC1 \in {[heapC EXCEPT ![o] =
                    [@ EXCEPT !.lastMessage = m, !.lastMessageTime = ts,
                              !.unreadCount = IF inc THEN @ + 1 ELSE @]]} :
     \* the captured activeChat is this chat and lacks the message
     \E upd \in {/\ h.act # NoAddr
                 /\ hC1[h.act].id = c
                 /\ m \notin Range(hA1[hC1[h.act].messages])} :
     \E hA2 \in {IF upd THEN Append(hA1, Append(hA1[hC1[h.act].messages], m))
                 ELSE hA1} :
     \E hC2 \in {IF upd
                 THEN Append(hC1, [hC1[h.act] EXCEPT
                                     !.messages = Len(hA1) + 1,
                                     !.lastMessage = m, !.lastMessageTime = ts,
                                     !.unreadCount = IF other THEN 0 ELSE @])
                 ELSE hC1} :
     LET act2 == IF upd THEN Len(hC1) + 1 ELSE activeChat
         markA == IF other /\ ~inc THEN MarkIssue(h.avail, c) ELSE << >>
         markB == IF upd /\ other THEN MarkIssue(h.avail, c) ELSE << >>
         \* the activeChat effect of the render
         markC == IF upd /\ hC2[act2].unreadCount > 0
                  THEN MarkIssue(isLastReadAvailable, c) ELSE << >>
     IN /\ Len(marks) + Len(markA) + Len(markB) + Len(markC) <= MaxMarks
        /\ marks' = marks \o markA \o markB \o markC
        /\ unreadCounts' = IF inc THEN [unreadCounts EXCEPT ![c] = @ + 1]
                           ELSE unreadCounts
        /\ activeChatRef' = IF upd THEN c ELSE activeChatRef
        /\ subAvail' = isLastReadAvailable
        /\ Commit(h.snap, act2, RemoveAt(handlers, i), hC2, hA2)
  /\ UNCHANGED << dbChat, sidebar, dbMember, dbMsg, dbLastRead, dbHasLastRead, draft, now, delivered,
                  fails, error, isLastReadAvailable, lastMessageIdRef, fetch,
                  sends, timers >>

\* ----------------------------------------------------------- fetchChats
FailChoices(k) == { b \in BOOLEAN : b => fails + k < MaxFails }
Cost(b) == IF b THEN 1 ELSE 0
ActiveId == IF activeChat = NoAddr THEN NoChat ELSE heapC[activeChat].id

\* fetchChats() is called from a closure that captured activeChat and
\* isLastReadAvailable = av (the subscription's closure or the last render's)
FetchStart(av) ==
  /\ fetch.phase = "idle"
  /\ av \in {isLastReadAvailable, subAvail}
  /\ fetch' = [IdleFetch EXCEPT !.phase = "parts", !.activeId = ActiveId,
                                !.avail = av]
  /\ error' = "null"
  /\ UNCHANGED << dbChat, sidebar, dbMember, dbMsg, dbLastRead, dbHasLastRead, draft, now, delivered,
                  fails, chats, activeChat, unreadCounts, isLastReadAvailable,
                  lastMessageIdRef, activeChatRef, subAvail, heapC, heapA, sbSnap,
                  handlers, marks, sends, timers >>

\* (variant: a participants query that succeeds marks the column available)
FetchParts_Restores ==
  /\ fetch.phase = "parts"
  /\ IF fetch.avail /\ ~dbHasLastRead
     THEN /\ isLastReadAvailable' = FALSE
          /\ error' = "null"
          /\ UNCHANGED << dbChat, sidebar, fetch, subAvail, chats, activeChat, heapC, heapA, sbSnap, handlers >>
     ELSE IF dbMember = {}
     THEN /\ fetch' = IdleFetch
          /\ subAvail' = isLastReadAvailable
          /\ Commit(<< >>, activeChat, handlers, heapC, heapA)
          /\ isLastReadAvailable' = TRUE
          /\ UNCHANGED << dbChat, sidebar, error >>
     ELSE /\ fetch' = [fetch EXCEPT
                         !.phase = "details",
                         !.parts = [c \in ChatIds |->
                                      IF c \notin dbMember THEN -1
                                      ELSE IF fetch.avail THEN dbLastRead[c]
                                      ELSE 0]]
          /\ isLastReadAvailable' = TRUE
          /\ UNCHANGED << dbChat, sidebar, error, subAvail, chats,
                          activeChat, heapC, heapA, sbSnap, handlers >>
  /\ UNCHANGED << dbChat, sidebar, dbMember, dbMsg, dbLastRead, dbHasLastRead, draft, now, delivered,
                  fails, unreadCounts, lastMessageIdRef, activeChatRef, marks,
                  sends, timers >>

\* the chat_participants query answers: rows, or the missing-column error
\* (then fetchChats calls itself, i.e. the same closure, again)
FetchParts ==
  /\ fetch.phase = "parts"
  /\ IF fetch.avail /\ ~dbHasLastRead
     THEN /\ isLastReadAvailable' = FALSE
          /\ error' = "null"
          /\ UNCHANGED << dbChat, sidebar, fetch, subAvail, chats, activeChat, heapC, heapA, sbSnap, handlers >>
     ELSE IF dbMember = {}
     THEN /\ fetch' = IdleFetch
          /\ subAvail' = isLastReadAvailable
          /\ Commit(<< >>, activeChat, handlers, heapC, heapA)
          /\ UNCHANGED << dbChat, sidebar, isLastReadAvailable, error >>
     ELSE /\ fetch' = [fetch EXCEPT
                         !.phase = "details",
                         !.parts = [c \in ChatIds |->
                                      IF c \notin dbMember THEN -1
                                      ELSE IF fetch.avail THEN dbLastRead[c]
                                      ELSE 0]]
          /\ UNCHANGED << dbChat, sidebar, isLastReadAvailable, error, subAvail, chats,
                          activeChat, heapC, heapA, sbSnap, handlers >>
  /\ UNCHANGED << dbChat, sidebar, dbMember, dbMsg, dbLastRead, dbHasLastRead, draft, now, delivered,
                  fails, unreadCounts, lastMessageIdRef, activeChatRef, marks,
                  sends, timers >>

\* (variant: the failure path also empties the collection)
FetchPartsFail_Clears ==
  /\ fetch.phase = "parts"
  /\ fails < MaxFails
  /\ fails' = fails + 1
  /\ error' = "Error loading chats"
  /\ fetch' = IdleFetch
  /\ Commit(<< >>, activeChat, handlers, heapC, heapA)
  /\ UNCHANGED << dbChat, sidebar, dbMember, dbMsg, dbLastRead, dbHasLastRead, draft, now, delivered,
                  unreadCounts, isLastReadAvailable, lastMessageIdRef,
                  activeChatRef, subAvail, marks, sends, timers >>

\* the chat_participants query fails otherwise
FetchPartsFail ==
  /\ fetch.phase = "parts"
  /\ fails < MaxFails
  /\ fails' = fails + 1
  /\ error' = "Error loading chats"
  /\ fetch' = IdleFetch
  /\ UNCHANGED << dbChat, sidebar, dbMember, dbMsg, dbLastRead, dbHasLastRead, draft, now, delivered,
                  chats, activeChat, unreadCounts, isLastReadAvailable,
                  lastMessageIdRef, activeChatRef, subAvail, heapC, heapA, sbSnap,
                  handlers, marks, sends, timers >>

\* the chats query answers
FetchDetails ==
  /\ fetch.phase = "details"
  /\ fetch' = [fetch EXCEPT
                 !.phase = "perchat",
                 !.stage = [c \in ChatIds |->
                              IF fetch.parts[c] >= 0 THEN "last" ELSE "none"]]
  /\ UNCHANGED << dbChat, sidebar, dbMember, dbMsg, dbLastRead, dbHasLastRead, draft, now, delivered,
                  fails, chats, activeChat, unreadCounts, error,
                  isLastReadAvailable, lastMessageIdRef, activeChatRef,
                  subAvail, heapC, heapA, sbSnap, handlers, marks, sends, timers >>

FetchDetailsFail ==
  /\ fetch.phase = "details"
  /\ fails < MaxFails
  /\ fails' = fails + 1
  /\ error' = "Error loading chat details"
  /\ fetch' = IdleFetch
  /\ UNCHANGED << dbChat, sidebar, dbMember, dbMsg, dbLastRead, dbHasLastRead, draft, now, delivered,
                  chats, activeChat, unreadCounts, isLastReadAvailable,
                  lastMessageIdRef, activeChatRef, subAvail, heapC, heapA, sbSnap,
                  handlers, marks, sends, timers >>

\* rows of chat_participants of chat c joined with users(name); a user's
\* name is its id here
NamesOf(c) == SelectSeq(UserOrder, LAMBDA u : u \in dbChat[c].members)

\* per chat: the latest message (order by created_at desc, limit 1)
LatestOf(c) ==
  { m \in MsgsOfChat(c) : \A k \in MsgsOfChat(c) : dbMsg[k].ts <= dbMsg[m].ts }

FetchLast(c) ==
  /\ fetch.phase = "perchat"
  /\ fetch.stage[c] = "last"
  /\ \E bad \in FailChoices(0) :
       /\ fails' = fails + Cost(bad)
       /\ \E m \in (IF bad \/ MsgsOfChat(c) = {} THEN {NoMsg} ELSE LatestOf(c)) :
            fetch' = [fetch EXCEPT !.stage[c] = "msgs", !.last[c] = m]
  /\ UNCHANGED << dbChat, sidebar, dbMember, dbMsg, dbLastRead, dbHasLastRead, draft, now, delivered,
                  chats, activeChat, unreadCounts, error, isLastReadAvailable,
                  lastMessageIdRef, activeChatRef, subAvail, heapC, heapA, sbSnap,
                  handlers, marks, sends, timers >>

\* (variant: a failing per-chat query aborts the whole refresh)
FetchMessages_Aborts(c) ==
  /\ fetch.phase = "perchat"
  /\ fetch.stage[c] = "msgs"
  /\ \E pbad \in FailChoices(0) : \E mbad \in FailChoices(Cost(pbad)) :
       /\ fails' = fails + Cost(pbad) + Cost(mbad)
       /\ IF pbad \/ mbad
          THEN /\ fetch' = IdleFetch
               /\ error' = "Failed to load chats"
          ELSE /\ fetch' = [fetch EXCEPT
                              !.stage[c] = "labels",
                              !.names[c] = NamesOf(c),
                              !.msgsNull[c] = FALSE,
                              !.msgs[c] = SortByTs(MsgsOfChat(c))]
               /\ error' = error
  /\ UNCHANGED << dbChat, sidebar, dbMember, dbMsg, dbLastRead, dbHasLastRead, draft, now, delivered,
                  chats, activeChat, unreadCounts, isLastReadAvailable,
                  lastMessageIdRef, activeChatRef, subAvail, heapC, heapA, sbSnap,
                  handlers, marks, sends, timers >>

\* per chat: the participants' names, then all messages ascending
FetchMessages(c) ==
  /\ fetch.phase = "perchat"
  /\ fetch.stage[c] = "msgs"
  /\ \E pbad \in FailChoices(0) : \E mbad \in FailChoices(Cost(pbad)) :
       /\ fails' = fails + Cost(pbad) + Cost(mbad)
       /\ fetch' = [fetch EXCEPT
                      !.stage[c] = "labels",
                      !.names[c] = IF pbad THEN << >> ELSE NamesOf(c),
                      !.msgsNull[c] = mbad,
                      !.msgs[c] = IF mbad THEN << >> ELSE SortByTs(MsgsOfChat(c))]
  /\ UNCHANGED << dbChat, sidebar, dbMember, dbMsg, dbLastRead, dbHasLastRead, draft, now, delivered,
                  chats, activeChat, unreadCounts, error, isLastReadAvailable,
                  lastMessageIdRef, activeChatRef, subAvail, heapC, heapA, sbSnap,
                  handlers, marks, sends, timers >>

\* (variant: the name-based rows are read only after a failed id-based query)
LabelsOf_ErrorOnly(c, newBad, oldBad) ==
  IF ~newBad
  THEN SelectSeq(NewLabelRows[c], LAMBDA r : r # NullLabel)
  ELSE IF ~oldBad
  THEN [i \in DOMAIN OldLabelRows[c] |->
          [id |-> OldLabelRows[c][i], name |-> OldLabelRows[c][i],
           color |-> DefaultColor]]
  ELSE << >>

\* labels of a chat: id-based rows first, name-based rows when the id-based
\* query failed or gave no rows
LabelsOf(c, newBad, oldBad) ==
  IF ~newBad /\ Len(NewLabelRows[c]) > 0
  THEN SelectSeq(NewLabelRows[c], LAMBDA r : r # NullLabel)
  ELSE IF ~oldBad
  THEN [i \in DOMAIN OldLabelRows[c] |->
          [id |-> OldLabelRows[c][i], name |-> OldLabelRows[c][i],
           color |-> DefaultColor]]
  ELSE << >>

FromOthers(msgs) == { i \in DOMAIN msgs : dbMsg[msgs[i]].author # Me }

\* (variant: a message stamped exactly at the watermark counts as unread)
UnreadOf_Inclusive(msgs, msgsNull, avail, lastRead) ==
  IF msgsNull THEN 0
  ELSE IF avail /\ lastRead # 0
  THEN Cardinality({ i \in FromOthers(msgs) : dbMsg[msgs[i]].ts >= lastRead })
  ELSE Cardinality(FromOthers(msgs))

\* unreadCount of one chat as fetchChats counts it; lastRead = 0 is null
UnreadOf(msgs, msgsNull, avail, lastRead) ==
  IF msgsNull THEN 0
  ELSE IF avail /\ lastRead # 0
  THEN Cardinality({ i \in FromOthers(msgs) : dbMsg[msgs[i]].ts > lastRead })
  ELSE Cardinality(FromOthers(msgs))

NoOut == [lastMessage |-> NoMsg, lastMessageTime |-> 0, unreadCount |-> 0,
          participants |-> << >>, labels |-> << >>]

\* the chat object the per-chat function returns
ChatOut(f, c, labels) ==
  [lastMessage |-> f.last[c],
   lastMessageTime |-> IF f.last[c] = NoMsg THEN ChatCreatedAt
                       ELSE dbMsg[f.last[c]].ts,
   unreadCount |-> IF activeChatRef = c THEN 0
                   ELSE UnreadOf(f.msgs[c], f.msgsNull[c], f.avail, f.parts[c]),
   participants |-> f.names[c],
   labels |-> labels]

Members(f) == SelectSeq(ChatOrder, LAMBDA c : f.parts[c] >= 0)

\* (variant: a refresh that keeps the messages the collection holds and its
\* reads lack)
FetchLabels_Merges(c) ==
  /\ fetch.phase = "perchat"
  /\ fetch.stage[c] = "labels"
  /\ \E newBad \in FailChoices(0) : \E oldBad \in FailChoices(Cost(newBad)) :
       /\ oldBad => (newBad \/ Len(NewLabelRows[c]) = 0)
       /\ fails' = fails + Cost(newBad) + Cost(oldBad)
       /\ \E out \in {ChatOut(fetch, c, LabelsOf(c, newBad, oldBad))} :
          \E f1 \in {[fetch EXCEPT !.stage[c] = "done", !.out[c] = out]} :
          \E mem \in {Members(f1)} :
          LET n == Len(mem)
              all == \A i \in 1..n : f1.stage[mem[i]] = "done"
              hC1 == heapC \o [i \in 1..n |->
                        [id |-> mem[i], messages |-> Len(heapA) + i,
                         lastMessage |-> f1.out[mem[i]].lastMessage,
                         lastMessageTime |-> f1.out[mem[i]].lastMessageTime,
                         unreadCount |-> f1.out[mem[i]].unreadCount,
                         participants |-> f1.out[mem[i]].participants,
                         labels |-> f1.out[mem[i]].labels]]
              hA1 == heapA \o [i \in 1..n |->
                        IF ChatIdx(chats, mem[i]) = 0 THEN f1.msgs[mem[i]]
                        ELSE f1.msgs[mem[i]] \o
                             SelectSeq(heapA[heapC[chats[ChatIdx(chats, mem[i])]].messages],
                                       LAMBDA x : x \notin Range(f1.msgs[mem[i]]))]
              ch1 == [i \in 1..n |-> Len(heapC) + i]
              act1 == IF f1.activeId = NoChat THEN ch1[1]
                      ELSE IF f1.activeId \in Range(mem)
                      THEN ch1[Pos(mem, f1.activeId)]
                      ELSE activeChat
              changed == act1 # activeChat
              byEffect == IF changed /\ hC1[act1].unreadCount > 0
                          THEN MarkIssue(isLastReadAvailable, hC1[act1].id)
                          ELSE << >>
          IN /\ unreadCounts' = [unreadCounts EXCEPT ![c] = out.unreadCount]
             /\ IF all
                THEN /\ Len(marks) + Len(byEffect) <= MaxMarks
                     /\ marks' = marks \o byEffect
                     /\ fetch' = IdleFetch
                     /\ activeChatRef' = IF changed THEN hC1[act1].id
                                         ELSE activeChatRef
                     /\ subAvail' = isLastReadAvailable
                     /\ Commit(ch1, act1, handlers, hC1, hA1)
                ELSE /\ fetch' = f1
                     /\ UNCHANGED << dbChat, sidebar, marks, activeChatRef, subAvail, chats,
                                     activeChat, heapC, heapA, sbSnap, handlers >>
  /\ UNCHANGED << dbChat, sidebar, dbMember, dbMsg, dbLastRead, dbHasLastRead, draft, now, delivered,
                  error, isLastReadAvailable, lastMessageIdRef, sends, timers >>

\* per chat: the labels, the unread count and setUnreadCounts; when this was
\* the last chat, Promise.all resolves and the rest of fetchChats runs
FetchLabels(c) ==
  /\ fetch.phase = "perchat"
  /\ fetch.stage[c] = "labels"
  /\ \E newBad \in FailChoices(0) : \E oldBad \in FailChoices(Cost(newBad)) :
       /\ oldBad => (newBad \/ Len(NewLabelRows[c]) = 0)
       /\ fails' = fails + Cost(newBad) + Cost(oldBad)
       /\ \E out \in {ChatOut(fetch, c, LabelsOf(c, newBad, oldBad))} :
          \E f1 \in {[fetch EXCEPT !.stage[c] = "done", !.out[c] = out]} :
          \E mem \in {Members(f1)} :
          LET n == Len(mem)
              all == \A i \in 1..n : f1.stage[mem[i]] = "done"
              hC1 == heapC \o [i \in 1..n |->
                        [id |-> mem[i], messages |-> Len(heapA) + i,
                         lastMessage |-> f1.out[mem[i]].lastMessage,
                         lastMessageTime |-> f1.out[mem[i]].lastMessageTime,
                         unreadCount |-> f1.out[mem[i]].unreadCount,
                         participants |-> f1.out[mem[i]].participants,
                         labels |-> f1.out[mem[i]].labels]]
              hA1 == heapA \o [i \in 1..n |-> f1.msgs[mem[i]]]
              ch1 == [i \in 1..n |-> Len(heapC) + i]
              act1 == IF f1.activeId = NoChat THEN ch1[1]
                      ELSE IF f1.activeId \in Range(mem)
                      THEN ch1[Pos(mem, f1.activeId)]
                      ELSE activeChat
              changed == act1 # activeChat
              byEffect == IF changed /\ hC1[act1].unreadCount > 0
                          THEN MarkIssue(isLastReadAvailable, hC1[act1].id)
                          ELSE << >>
          IN /\ unreadCounts' = [unreadCounts EXCEPT ![c] = out.unreadCount]
             /\ IF all
                THEN /\ Len(marks) + Len(byEffect) <= MaxMarks
                     /\ marks' = marks \o byEffect
                     /\ fetch' = IdleFetch
                     /\ activeChatRef' = IF changed THEN hC1[act1].id
                                         ELSE activeChatRef
                     /\ subAvail' = isLastReadAvailable
                     /\ Commit(ch1, act1, handlers, hC1, hA1)
                ELSE /\ fetch' = f1
                     /\ UNCHANGED << dbChat, sidebar, marks, activeChatRef, subAvail, chats,
                                     activeChat, heapC, heapA, sbSnap, handlers >>
  /\ UNCHANGED << dbChat, sidebar, dbMember, dbMsg, dbLastRead, dbHasLastRead, draft, now, delivered,
                  error, isLastReadAvailable, lastMessageIdRef, sends, timers >>

\* ------------------------------- handleSendMessage / handleMessageSent
\* String.prototype.trim on a text given as its sequence of characters
RECURSIVE TrimStart(_)
TrimStart(t) ==
  IF t # << >> /\ Head(t) = Space THEN TrimStart(Tail(t)) ELSE t

RECURSIVE TrimEnd(_)
TrimEnd(t) ==
  IF t # << >> /\ Last(t) = Space THEN TrimEnd(Front(t)) ELSE t

Trim(t) == TrimEnd(TrimStart(t))

\* the user sends the text in the input box, no file selected, in the
\* focused chat: nothing happens for a blank text, else the row is inserted
SendText(text) ==
  /\ activeChat # NoAddr
  /\ draft.phase = "idle"
  /\ Trim(text) # << >>
  /\ CanInsert
  /\ dbMsg' = [dbMsg EXCEPT ![NextMsgId] =
                 [chat |-> ActiveId, author |-> Me, ts |-> now,
                  content |-> Trim(text), attachments |-> 0]]
  /\ sends' = Append(sends, [msg |-> NextMsgId, activeId |-> ActiveId,
                             avail |-> isLastReadAvailable])
  /\ UNCHANGED << dbChat, sidebar, dbMember, dbLastRead, dbHasLastRead, draft, now, delivered, fails,
                  chats, activeChat, unreadCounts, error, isLastReadAvailable,
                  lastMessageIdRef, activeChatRef, subAvail, heapC, heapA, sbSnap,
                  handlers, marks, fetch, timers >>

\* the user sends a text with n files selected: the guard lets it pass
\* whatever the text is, and the uploads begin
SendFiles(text, n) ==
  /\ activeChat # NoAddr
  /\ draft.phase = "idle"
  /\ ~(Trim(text) = << >> /\ n = 0)
  /\ n > 0
  /\ CanInsert
  /\ draft' = [phase |-> "upload", text |-> text, left |-> n, uploaded |-> 0,
               activeId |-> ActiveId, avail |-> isLastReadAvailable]
  /\ UNCHANGED << dbChat, sidebar, dbMember, dbMsg, dbLastRead, dbHasLastRead, now, delivered, fails,
                  chats, activeChat, unreadCounts, error, isLastReadAvailable,
                  lastMessageIdRef, activeChatRef, subAvail, heapC, heapA, sbSnap,
                  handlers, marks, fetch, sends, timers >>

\* the upload of the next file answers: its public URL joins
\* uploadedAttachments
UploadAnswer ==
  /\ draft.phase = "upload"
  /\ draft.left > 0
  /\ draft' = [draft EXCEPT !.left = @ - 1, !.uploaded = @ + 1]
  /\ UNCHANGED << dbChat, sidebar, dbMember, dbMsg, dbLastRead, dbHasLastRead, now, delivered, fails,
                  chats, activeChat, unreadCounts, error, isLastReadAvailable,
                  lastMessageIdRef, activeChatRef, subAvail, heapC, heapA, sbSnap,
                  handlers, marks, fetch, sends, timers >>

\* the upload of the next file fails: the inner catch reports it and the
\* loop goes on with the next file
UploadFail ==
  /\ draft.phase = "upload"
  /\ draft.left > 0
  /\ fails < MaxFails
  /\ fails' = fails + 1
  /\ draft' = [draft EXCEPT !.left = @ - 1]
  /\ UNCHANGED << dbChat, sidebar, dbMember, dbMsg, dbLastRead, dbHasLastRead, now, delivered,
                  chats, activeChat, unreadCounts, error, isLastReadAvailable,
                  lastMessageIdRef, activeChatRef, subAvail, heapC, heapA, sbSnap,
                  handlers, marks, fetch, sends, timers >>

\* all files were tried: the row is inserted with the trimmed text and the
\* attachments that were uploaded (null when there is none)
SendInsert ==
  /\ draft.phase = "upload"
  /\ draft.left = 0
  /\ CanInsert
  /\ draft' = IdleDraft
  /\ dbMsg' = [dbMsg EXCEPT ![NextMsgId] =
                 [chat |-> draft.activeId, author |-> Me, ts |-> now,
                  content |-> Trim(draft.text),
                  attachments |-> draft.uploaded]]
  /\ sends' = Append(sends, [msg |-> NextMsgId, activeId |-> draft.activeId,
                             avail |-> draft.avail])
  /\ UNCHANGED << dbChat, sidebar, dbMember, dbLastRead, dbHasLastRead, now, delivered, fails,
                  chats, activeChat, unreadCounts, error, isLastReadAvailable,
                  lastMessageIdRef, activeChatRef, subAvail, heapC, heapA, sbSnap,
                  handlers, marks, fetch, timers >>

\* the user sends a plain text message in the focused chat
SendStart == SendText(PlainText)

\* the insert answers: onMessageSent(messageId), i.e. handleMessageSent and
\* fetchChats of the render that was current when the send began
SendDone(i) ==
  /\ i \in DOMAIN sends
  /\ fetch.phase = "idle"
  /\ lastMessageIdRef' = sends[i].msg
  /\ timers' = Append(timers, sends[i].msg)
  /\ fetch' = [IdleFetch EXCEPT !.phase = "parts",
                                !.activeId = sends[i].activeId,
                                !.avail = sends[i].avail]
  /\ error' = "null"
  /\ sends' = RemoveAt(sends, i)
  /\ UNCHANGED << dbChat, sidebar, dbMember, dbMsg, dbLastRead, dbHasLastRead, draft, now, delivered,
                  fails, chats, activeChat, unreadCounts, isLastReadAvailable,
                  activeChatRef, subAvail, heapC, heapA, sbSnap, handlers, marks >>

\* (variant: the timer callback leaves the ref as it is)
TimerFire_Keeps ==
  /\ timers # << >>
  /\ timers' = Tail(timers)
  /\ UNCHANGED << dbChat, sidebar, dbMember, dbMsg, dbLastRead, dbHasLastRead, draft, now, delivered,
                  fails, chats, activeChat, unreadCounts, error,
                  isLastReadAvailable, lastMessageIdRef, activeChatRef, subAvail,
                  heapC, heapA, sbSnap, handlers, marks, fetch, sends >>

\* the 5000 ms timer of the oldest pending handleMessageSent fires
TimerFire ==
  /\ timers # << >>
  /\ lastMessageIdRef' = IF lastMessageIdRef = Head(timers) THEN NoMsg
                         ELSE lastMessageIdRef
  /\ timers' = Tail(timers)
  /\ UNCHANGED << dbChat, sidebar, dbMember, dbMsg, dbLastRead, dbHasLastRead, draft, now, delivered,
                  fails, chats, activeChat, unreadCounts, error,
                  isLastReadAvailable, activeChatRef, subAvail, heapC, heapA, sbSnap,
                  handlers, marks, fetch, sends >>

\* ------------------------------------------------ chat creation (Sidebar)
\* Each client runs one create handler at a time (both buttons are disabled
\* while isLoading).  The handlers of Me call back into Home: onChatSelect
\* is handleChatSelect and onChatCreated is fetchChats, both of the render
\* in which the button was clicked; the Home of Other is not modelled.
createFrame == << dbMsg, dbLastRead, dbHasLastRead, draft, now, delivered,
                  unreadCounts, isLastReadAvailable, lastMessageIdRef,
                  sends, timers >>
heapFrame == << chats, activeChat, heapC, heapA, handlers, sbSnap >>
focusFrame == << marks, activeChatRef, subAvail >>

Running(u, ph) == sidebar[u].phase = ph

\* chat ids no row of chats has
FreeIds == { c \in ChatIds : ~dbChat[c].exists }
\* uuidv4(), and the ids the procedures generate: an id no row has (the
\* value is named when the row is written)
NewChatId ==
  CHOOSE c \in FreeIds : \A d \in FreeIds : Pos(ChatOrder, c) <= Pos(ChatOrder, d)

\* the direct chats both users have a chat_participants row in
DirectChats(a, b) ==
  { c \in ChatIds : /\ dbChat[c].exists
                    /\ ~dbChat[c].isGroup
                    /\ dbChat[c].members = {a, b} }
\* find_direct_chat(user1_id, user2_id): the ids of those chats
FindDirectChat(a, b) == SelectSeq(ChatOrder, LAMBDA c : c \in DirectChats(a, b))

\* the chats the user has a chat_participants row in
MemberOf(t) == { c \in ChatIds : Me \in t[c].members }

\* setError(err), setIsLoading(false): the handler of u has returned and its
\* closure is released
Return(u, err) ==
  /\ sidebar' = [sidebar EXCEPT ![u] = [IdleSidebar EXCEPT !.error = err]]
  /\ IF u = Me
     THEN CommitS(chats, activeChat, handlers, << >>, heapC, heapA)
     ELSE UNCHANGED heapFrame

\* onChatCreated(): fetchChats as the clicked render defined it
OnChatCreated(u) ==
  IF u = Me
  THEN /\ fetch.phase = "idle"
       /\ fetch' = [IdleFetch EXCEPT !.phase = "parts",
                                     !.activeId = sidebar[u].activeId,
                                     !.avail = sidebar[u].avail]
       /\ error' = "null"
  ELSE UNCHANGED << fetch, error >>

\* a request of the handler fails: the injected failures are bounded
Failing ==
  /\ fails < MaxFails
  /\ fails' = fails + 1

\* ---- handleCreateChat
\* the user of client u picked peer and clicks "Create Chat"
CreateChatClick(u, peer) ==
  /\ Running(u, "idle")
  /\ peer \in Users \ {u}
  /\ sidebar' = [sidebar EXCEPT ![u] =
                   [IdleSidebar EXCEPT
                      !.phase = "chat:session", !.peer = peer,
                      !.activeId = IF u = Me THEN ActiveId ELSE NoChat,
                      !.avail = IF u = Me THEN isLastReadAvailable ELSE TRUE]]
  /\ sbSnap' = IF u = Me THEN chats ELSE sbSnap
  /\ UNCHANGED << dbMember, dbChat, fails, fetch, error, chats, activeChat,
                  heapC, heapA, handlers >>
  /\ UNCHANGED << createFrame, focusFrame >>

\* getSession answers with a session: find_direct_chat is called
CreateChatSession(u) ==
  /\ Running(u, "chat:session")
  /\ sidebar' = [sidebar EXCEPT ![u].phase = "chat:find"]
  /\ UNCHANGED << dbMember, dbChat, fails, fetch, error >>
  /\ UNCHANGED << createFrame, focusFrame, heapFrame >>

\* getSession answers without a session
CreateChatNoSession(u) ==
  /\ Running(u, "chat:session")
  /\ Failing
  /\ Return(u, "Your session has expired")
  /\ UNCHANGED << dbMember, dbChat, fetch, error >>
  /\ UNCHANGED << createFrame, focusFrame >>

\* find_direct_chat answers with a chat: the handler looks it up in its
\* list, selects it when it is there, closes the dialog and refreshes
FindAnswerFound(u) ==
  /\ Running(u, "chat:find")
  /\ FindDirectChat(u, sidebar[u].peer) # << >>
  /\ LET c == FindDirectChat(u, sidebar[u].peer)[1]
         idx == IF u = Me THEN ChatIdx(sbSnap, c) ELSE 0
     IN IF idx = 0
        THEN /\ Return(u, "null")
             /\ UNCHANGED focusFrame
        ELSE LET a == sbSnap[idx]
                 unread == heapC[a].unreadCount
                 changed == a # activeChat
                 bySelect == IF unread > 0 THEN MarkIssue(sidebar[u].avail, c)
                             ELSE << >>
                 byEffect == IF changed /\ unread > 0
                             THEN MarkIssue(isLastReadAvailable, c) ELSE << >>
             IN /\ Len(marks) + Len(bySelect) + Len(byEffect) <= MaxMarks
                /\ marks' = marks \o bySelect \o byEffect
                /\ activeChatRef' = IF changed THEN c ELSE activeChatRef
                /\ subAvail' = IF changed THEN isLastReadAvailable ELSE subAvail
                /\ sidebar' = [sidebar EXCEPT ![u] = IdleSidebar]
                /\ CommitS(chats, a, handlers, << >>, heapC, heapA)
  /\ OnChatCreated(u)
  /\ UNCHANGED << dbMember, dbChat, fails >>
  /\ UNCHANGED createFrame

\* find_direct_chat answers with no chat: create_direct_chat is called
FindAnswerNone(u) ==
  /\ Running(u, "chat:find")
  /\ FindDirectChat(u, sidebar[u].peer) = << >>
  /\ sidebar' = [sidebar EXCEPT ![u].phase = "chat:rpc"]
  /\ UNCHANGED << dbMember, dbChat, fails, fetch, error >>
  /\ UNCHANGED << createFrame, focusFrame, heapFrame >>

\* find_direct_chat fails: the fallback inserts a row into chats
FindFail(u) ==
  /\ Running(u, "chat:find")
  /\ Failing
  /\ sidebar' = [sidebar EXCEPT ![u].phase = "chat:insertChat"]
  /\ UNCHANGED << dbMember, dbChat, fetch, error >>
  /\ UNCHANGED << createFrame, focusFrame, heapFrame >>

\* the chats insert of the fallback succeeds: the participants insert follows
InsertChatAnswer(u) ==
  /\ Running(u, "chat:insertChat")
  /\ FreeIds # {}
  /\ dbChat' = [dbChat EXCEPT ![NewChatId] =
                  [exists |-> TRUE, isGroup |-> FALSE,
                   name |-> sidebar[u].peer, members |-> {}]]
  /\ sidebar' = [sidebar EXCEPT ![u].phase = "chat:insertParts",
                                ![u].chatId = NewChatId]
  /\ UNCHANGED << dbMember, fails, fetch, error >>
  /\ UNCHANGED << createFrame, focusFrame, heapFrame >>

InsertChatFail(u) ==
  /\ Running(u, "chat:insertChat")
  /\ Failing
  /\ Return(u, "Failed to create chat")
  /\ UNCHANGED << dbMember, dbChat, fetch, error >>
  /\ UNCHANGED << createFrame, focusFrame >>

\* (variant: a fallback that removes the chat row it inserted)
InsertPartsFail_Compensates(u) ==
  /\ Running(u, "chat:insertParts")
  /\ Failing
  /\ Return(u, "Failed to add participants")
  /\ dbChat' = [dbChat EXCEPT ![sidebar[u].chatId] = NoChatRow]
  /\ UNCHANGED << dbMember, fetch, error >>
  /\ UNCHANGED << createFrame, focusFrame >>

\* the participants insert fails: the error is shown, nothing else is done
InsertPartsFail(u) ==
  /\ Running(u, "chat:insertParts")
  /\ Failing
  /\ Return(u, "Failed to add participants")
  /\ UNCHANGED << dbMember, dbChat, fetch, error >>
  /\ UNCHANGED << createFrame, focusFrame >>

\* the participants insert succeeds: the dialog closes, the list refreshes
InsertPartsAnswer(u) ==
  /\ Running(u, "chat:insertParts")
  /\ dbChat' = [dbChat EXCEPT ![sidebar[u].chatId].members =
                                 {u, sidebar[u].peer}]
  /\ dbMember' = MemberOf(dbChat')
  /\ Return(u, "null")
  /\ OnChatCreated(u)
  /\ UNCHANGED fails
  /\ UNCHANGED << createFrame, focusFrame >>

\* create_direct_chat(user1_id, user2_id, chat_name, phone_number): the
\* atomic find-or-create; an existing chat of the two users is returned,
\* otherwise a chat with both chat_participants rows is created
CreateDirectChat(a, b) ==
  IF DirectChats(a, b) # {} THEN dbChat
  ELSE [dbChat EXCEPT ![NewChatId] =
          [exists |-> TRUE, isGroup |-> FALSE, name |-> b, members |-> {a, b}]]

CreateRpcAnswer(u) ==
  /\ Running(u, "chat:rpc")
  /\ DirectChats(u, sidebar[u].peer) # {} \/ FreeIds # {}
  /\ dbChat' = CreateDirectChat(u, sidebar[u].peer)
  /\ dbMember' = MemberOf(dbChat')
  /\ Return(u, "null")
  /\ OnChatCreated(u)
  /\ UNCHANGED fails
  /\ UNCHANGED << createFrame, focusFrame >>

CreateRpcFail(u) ==
  /\ Running(u, "chat:rpc")
  /\ Failing
  /\ Return(u, "Failed to create chat")
  /\ UNCHANGED << dbMember, dbChat, fetch, error >>
  /\ UNCHANGED << createFrame, focusFrame >>

\* ---- handleCreateGroup
\* the user of client u typed a name, ticked the users of sel and clicks
\* "Create Group"
CreateGroupClick(u, sel, name) ==
  /\ Running(u, "idle")
  /\ sel \in (SUBSET (Users \ {u})) \ {{}}
  /\ name \in GroupNames
  /\ sidebar' = [sidebar EXCEPT ![u] =
                   [IdleSidebar EXCEPT
                      !.phase = "group:session", !.sel = sel, !.name = name,
                      !.activeId = IF u = Me THEN ActiveId ELSE NoChat,
                      !.avail = IF u = Me THEN isLastReadAvailable ELSE TRUE]]
  /\ UNCHANGED << dbMember, dbChat, fails, fetch, error >>
  /\ UNCHANGED << createFrame, focusFrame, heapFrame >>

\* getSession answers with a session: create_group_chat is called
CreateGroupSession(u) ==
  /\ Running(u, "group:session")
  /\ sidebar' = [sidebar EXCEPT ![u].phase = "group:rpc"]
  /\ UNCHANGED << dbMember, dbChat, fails, fetch, error >>
  /\ UNCHANGED << createFrame, focusFrame, heapFrame >>

CreateGroupNoSession(u) ==
  /\ Running(u, "group:session")
  /\ Failing
  /\ Return(u, "Your session has expired")
  /\ UNCHANGED << dbMember, dbChat, fetch, error >>
  /\ UNCHANGED << createFrame, focusFrame >>

\* create_group_chat(creator_id, member_ids, chat_name, created_timestamp):
\* a new group chat with the chat_participants rows of the creator and the
\* members, written atomically
CreateGroupChat(creator, memberIds, name) ==
  [dbChat EXCEPT ![NewChatId] =
     [exists |-> TRUE, isGroup |-> TRUE, name |-> name,
      members |-> {creator} \cup memberIds]]

GroupRpcAnswer(u) ==
  /\ Running(u, "group:rpc")
  /\ FreeIds # {}
  /\ dbChat' = CreateGroupChat(u, sidebar[u].sel, sidebar[u].name)
  /\ dbMember' = MemberOf(dbChat')
  /\ Return(u, "null")
  /\ OnChatCreated(u)
  /\ UNCHANGED fails
  /\ UNCHANGED << createFrame, focusFrame >>

\* create_group_chat fails: the fallback inserts a row into chats
GroupRpcFail(u) ==
  /\ Running(u, "group:rpc")
  /\ Failing
  /\ sidebar' = [sidebar EXCEPT ![u].phase = "group:insertChat"]
  /\ UNCHANGED << dbMember, dbChat, fetch, error >>
  /\ UNCHANGED << createFrame, focusFrame, heapFrame >>

GroupInsertChatAnswer(u) ==
  /\ Running(u, "group:insertChat")
  /\ FreeIds # {}
  /\ dbChat' = [dbChat EXCEPT ![NewChatId] =
                  [exists |-> TRUE, isGroup |-> TRUE,
                   name |-> sidebar[u].name, members |-> {}]]
  /\ sidebar' = [sidebar EXCEPT ![u].phase = "group:insertParts",
                                ![u].chatId = NewChatId]
  /\ UNCHANGED << dbMember, fails, fetch, error >>
  /\ UNCHANGED << createFrame, focusFrame, heapFrame >>

GroupInsertChatFail(u) ==
  /\ Running(u, "group:insertChat")
  /\ Failing
  /\ Return(u, "Failed to create group chat")
  /\ UNCHANGED << dbMember, dbChat, fetch, error >>
  /\ UNCHANGED << createFrame, focusFrame >>

\* (variant: a fallback that adds the selected users but not the creator)
GroupInsertPartsAnswer_NoCreator(u) ==
  /\ Running(u, "group:insertParts")
  /\ dbChat' = [dbChat EXCEPT ![sidebar[u].chatId].members = sidebar[u].sel]
  /\ dbMember' = MemberOf(dbChat')
  /\ Return(u, "null")
  /\ OnChatCreated(u)
  /\ UNCHANGED fails
  /\ UNCHANGED << createFrame, focusFrame >>

\* the participants insert succeeds: the creator and the selected users
GroupInsertPartsAnswer(u) ==
  /\ Running(u, "group:insertParts")
  /\ dbChat' = [dbChat EXCEPT ![sidebar[u].chatId].members =
                                 {u} \cup sidebar[u].sel]
  /\ dbMember' = MemberOf(dbChat')
  /\ Return(u, "null")
  /\ OnChatCreated(u)
  /\ UNCHANGED fails
  /\ UNCHANGED << createFrame, focusFrame >>

GroupInsertPartsFail(u) ==
  /\ Running(u, "group:insertParts")
  /\ Failing
  /\ Return(u, "Failed to add group participants")
  /\ UNCHANGED << dbMember, dbChat, fetch, error >>
  /\ UNCHANGED << createFrame, focusFrame >>

\* -------------------------------------------------------- specification
Next ==
  \/ Tick
  \/ \E text \in Texts : SendText(text)
  \/ \E text \in Texts : \E n \in 1..MaxFiles : SendFiles(text, n)
  \/ UploadAnswer
  \/ UploadFail
  \/ SendInsert
  \/ \E c \in ChatIds : \E ts \in 1..now : OtherInsert(c, ts)
  \/ \E c \in ChatIds : Leave(c)
  \/ DropColumn
  \/ \E m \in MsgIds : Deliver(m)
  \/ \E i \in 1..MaxHandlers : HandlerDone(i)
  \/ \E i \in 1..MaxHandlers : HandlerFail(i)
  \/ \E c \in ChatIds : Select(c)
  \/ \E i \in 1..MaxMarks : MarkDone(i)
  \/ \E i \in 1..MaxMarks : MarkFail(i)
  \/ \E av \in BOOLEAN : FetchStart(av)
  \/ FetchParts
  \/ FetchPartsFail
  \/ FetchDetails
  \/ FetchDetailsFail
  \/ \E c \in ChatIds : FetchLast(c)
  \/ \E c \in ChatIds : FetchMessages(c)
  \/ \E c \in ChatIds : FetchLabels(c)
  \/ SendStart
  \/ SendDone(1)
  \/ TimerFire
  \/ \E u \in Clients : \E peer \in Users : CreateChatClick(u, peer)
  \/ \E u \in Clients : CreateChatSession(u)
  \/ \E u \in Clients : CreateChatNoSession(u)
  \/ \E u \in Clients : FindAnswerFound(u)
  \/ \E u \in Clients : FindAnswerNone(u)
  \/ \E u \in Clients : FindFail(u)
  \/ \E u \in Clients : InsertChatAnswer(u)
  \/ \E u \in Clients : InsertChatFail(u)
  \/ \E u \in Clients : InsertPartsAnswer(u)
  \/ \E u \in Clients : InsertPartsFail(u)
  \/ \E u \in Clients : CreateRpcAnswer(u)
  \/ \E u \in Clients : CreateRpcFail(u)
  \/ \E u \in Clients : \E sel \in SUBSET Users : \E name \in GroupNames :
       CreateGroupClick(u, sel, name)
  \/ \E u \in Clients : CreateGroupSession(u)
  \/ \E u \in Clients : CreateGroupNoSession(u)
  \/ \E u \in Clients : GroupRpcAnswer(u)
  \/ \E u \in Clients : GroupRpcFail(u)
  \/ \E u \in Clients : GroupInsertChatAnswer(u)
  \/ \E u \in Clients : GroupInsertChatFail(u)
  \/ \E u \in Clients : GroupInsertPartsAnswer(u)
  \/ \E u \in Clients : GroupInsertPartsFail(u)

Spec == Init /\ [][Next]_vars


\* ------------------------------------------------------------ scenarios
\* The state a first fetchChats leaves when the user is in both chats and no
\* message exists yet (Spec reaches it); k transport failures are already
\* spent.
LoadedChat(c, a) ==
  [id |-> c, messages |-> a, lastMessage |-> NoMsg,
   lastMessageTime |-> ChatCreatedAt, unreadCount |-> 0,
   participants |-> ParticipantNames[c], labels |-> LabelsOf(c, FALSE, FALSE)]

LoadedState(k) ==
  /\ dbMember = ChatIds
  /\ dbMsg = [m \in MsgIds |-> NoRow]
  /\ dbLastRead = [c \in ChatIds |-> 0]
  /\ dbHasLastRead = TRUE
  /\ now = 1
  /\ delivered = [m \in MsgIds |-> 0]
  /\ fails = k
  /\ chats = << 1, 2 >>
  /\ activeChat = 1
  /\ unreadCounts = [c \in ChatIds |-> 0]
  /\ error = "null"
  /\ isLastReadAvailable = TRUE
  /\ lastMessageIdRef = NoMsg
  /\ activeChatRef = "c1"
  /\ subAvail = TRUE
  /\ heapC = << LoadedChat("c1", 1), LoadedChat("c2", 2) >>
  /\ heapA = << << >>, << >> >>
  /\ handlers = << >>
  /\ marks = << >>
  /\ fetch = IdleFetch
  /\ sends = << >>
  /\ timers = << >>
  /\ draft = IdleDraft
  /\ dbChat = [c \in ChatIds |-> SeedRow]
  /\ sidebar = [u \in Clients |-> IdleSidebar]
  /\ sbSnap = << >>

InitLoaded == LoadedState(0)
InitLoadedNoFail == LoadedState(MaxFails)

\* realtime events, focus changes and watermark writes on loaded chats
NextEvents ==
  \/ \E c \in ChatIds : OtherInsert(c, now)
  \/ \E m \in MsgIds : Deliver(m)
  \/ \E i \in 1..MaxHandlers : HandlerDone(i)
  \/ \E i \in 1..MaxHandlers : HandlerFail(i)
  \/ \E c \in ChatIds : Select(c)
  \/ \E i \in 1..MaxMarks : MarkDone(i)
  \/ \E i \in 1..MaxMarks : MarkFail(i)

SpecEvents == InitLoaded /\ [][NextEvents]_vars

\* full refreshes from a cold start while the backend changes
NextRefresh ==
  \/ \E c \in ChatIds : OtherInsert(c, now)
  \/ \E c \in ChatIds : Leave(c)
  \/ \E i \in 1..MaxMarks : MarkDone(i)
  \/ \E av \in BOOLEAN : FetchStart(av)
  \/ FetchParts
  \/ FetchPartsFail
  \/ FetchDetails
  \/ FetchDetailsFail
  \/ \E c \in ChatIds : FetchLast(c)
  \/ \E c \in ChatIds : FetchMessages(c)
  \/ \E c \in ChatIds : FetchLabels(c)

SpecRefresh == Init /\ [][NextRefresh]_vars

\* the user sends messages; their realtime echoes, timers and refreshes
NextSend ==
  \/ \E m \in MsgIds : Deliver(m)
  \/ \E i \in 1..MaxHandlers : HandlerDone(i)
  \/ FetchParts
  \/ FetchDetails
  \/ \E c \in ChatIds : FetchLast(c)
  \/ \E c \in ChatIds : FetchMessages(c)
  \/ \E c \in ChatIds : FetchLabels(c)
  \/ SendStart
  \/ SendDone(1)
  \/ TimerFire

SpecSend == InitLoadedNoFail /\ [][NextSend]_vars


\* Me and Other create direct chats with each other against a backend
\* without chats; the refreshes the creations start run as well
InitEmpty ==
  /\ Init
  /\ dbMember = {}
  /\ dbHasLastRead

NextCreate ==
  \/ \E u \in Clients : \E peer \in Clients : CreateChatClick(u, peer)
  \/ \E u \in Clients : CreateChatSession(u)
  \/ \E u \in Clients : CreateChatNoSession(u)
  \/ \E u \in Clients : FindAnswerFound(u)
  \/ \E u \in Clients : FindAnswerNone(u)
  \/ \E u \in Clients : FindFail(u)
  \/ \E u \in Clients : InsertChatAnswer(u)
  \/ \E u \in Clients : InsertChatFail(u)
  \/ \E u \in Clients : InsertPartsAnswer(u)
  \/ \E u \in Clients : InsertPartsFail(u)
  \/ \E u \in Clients : CreateRpcAnswer(u)
  \/ \E u \in Clients : CreateRpcFail(u)
  \/ FetchParts
  \/ FetchDetails
  \/ \E c \in ChatIds : FetchLast(c)
  \/ \E c \in ChatIds : FetchMessages(c)
  \/ \E c \in ChatIds : FetchLabels(c)

SpecCreate == InitEmpty /\ [][NextCreate]_vars

\* Me creates group chats against a backend without chats
NextGroup ==
  \/ \E sel \in SUBSET Users : \E name \in GroupNames :
       CreateGroupClick(Me, sel, name)
  \/ CreateGroupSession(Me)
  \/ CreateGroupNoSession(Me)
  \/ GroupRpcAnswer(Me)
  \/ GroupRpcFail(Me)
  \/ GroupInsertChatAnswer(Me)
  \/ GroupInsertChatFail(Me)
  \/ GroupInsertPartsAnswer(Me)
  \/ GroupInsertPartsFail(Me)
  \/ FetchParts
  \/ FetchDetails
  \/ \E c \in ChatIds : FetchLast(c)
  \/ \E c \in ChatIds : FetchMessages(c)
  \/ \E c \in ChatIds : FetchLabels(c)

SpecGroup == InitEmpty /\ [][NextGroup]_vars

\* the user takes part in c1 only and a refresh has loaded it; messages of
\* c2 are inserted and delivered all the same
InitOneChat ==
  /\ dbMember = {"c1"}
  /\ dbMsg = [m \in MsgIds |-> NoRow]
  /\ dbLastRead = [c \in ChatIds |-> 0]
  /\ dbHasLastRead = TRUE
  /\ now = 1
  /\ delivered = [m \in MsgIds |-> 0]
  /\ fails = 0
  /\ chats = << 1 >>
  /\ activeChat = 1
  /\ unreadCounts = [c \in ChatIds |-> 0]
  /\ error = "null"
  /\ isLastReadAvailable = TRUE
  /\ lastMessageIdRef = NoMsg
  /\ activeChatRef = "c1"
  /\ subAvail = TRUE
  /\ heapC = << LoadedChat("c1", 1) >>
  /\ heapA = << << >> >>
  /\ handlers = << >>
  /\ marks = << >>
  /\ fetch = IdleFetch
  /\ sends = << >>
  /\ timers = << >>
  /\ draft = IdleDraft
  /\ dbChat = [c \in ChatIds |->
                IF c = "c1" THEN SeedRow ELSE [SeedRow EXCEPT !.members = {Other}]]
  /\ sidebar = [u \in Clients |-> IdleSidebar]
  /\ sbSnap = << >>

SpecOneChat == InitOneChat /\ [][NextEvents]_vars

\* realtime events of messages whose created_at lags behind the clock
NextLag ==
  \/ Tick
  \/ \E c \in ChatIds : \E ts \in 1..now : OtherInsert(c, ts)
  \/ \E m \in MsgIds : Deliver(m)
  \/ \E i \in 1..MaxHandlers : HandlerDone(i)

SpecLag == InitLoadedNoFail /\ [][NextLag]_vars

\* loaded chats with the watermark available while time passes: messages
\* of the other user arrive in c2, the user changes focus and mark-read
\* updates complete
NextMarkRace ==
  \/ Tick
  \/ OtherInsert("c2", now)
  \/ \E m \in MsgIds : Deliver(m)
  \/ \E i \in 1..MaxHandlers : HandlerDone(i)
  \/ \E c \in ChatIds : Select(c)
  \/ \E i \in 1..MaxMarks : MarkDone(i)

SpecMarkRace == InitLoadedNoFail /\ [][NextMarkRace]_vars

\* the user sends messages on loaded chats; one query of the refreshes that
\* follow may fail.  Every request is answered and every timer fires; when
\* the realtime server delivers an event is up to the server.
InitLoadedOneFail == LoadedState(MaxFails - 1)

FetchAnswer ==
  \/ FetchParts
  \/ FetchPartsFail
  \/ FetchDetails
  \/ FetchDetailsFail
  \/ \E c \in ChatIds : FetchLast(c)
  \/ \E c \in ChatIds : FetchMessages(c)
  \/ \E c \in ChatIds : FetchLabels(c)

NextEcho ==
  \/ SendStart
  \/ SendDone(1)
  \/ TimerFire
  \/ \E m \in MsgIds : Deliver(m)
  \/ \E i \in 1..MaxHandlers : HandlerDone(i)
  \/ FetchAnswer

\* the steps that do not wait for the user or the realtime server; there
\* are finitely many of them in a behaviour, so fairness for their
\* disjunction lets each of them happen
Pending ==
  \/ SendDone(1)
  \/ TimerFire
  \/ \E i \in 1..MaxHandlers : HandlerDone(i)
  \/ FetchAnswer

SpecEcho == InitLoadedOneFail /\ [][NextEcho]_vars /\ WF_vars(Pending)

\* the user composes messages, with and without files, on loaded chats;
\* uploads may fail
NextCompose ==
  \/ Tick
  \/ \E text \in Texts : SendText(text)
  \/ \E text \in Texts : \E n \in 1..MaxFiles : SendFiles(text, n)
  \/ UploadAnswer
  \/ UploadFail
  \/ SendInsert

SpecCompose == InitLoaded /\ [][NextCompose]_vars

\* realtime events of messages for the unfocused chat c2 while refreshes
\* run, without transport failures
NextRace ==
  \/ OtherInsert("c2", now)
  \/ \E m \in MsgIds : Deliver(m)
  \/ \E i \in 1..MaxHandlers : HandlerDone(i)
  \/ \E av \in BOOLEAN : FetchStart(av)
  \/ FetchParts
  \/ FetchDetails
  \/ \E c \in ChatIds : FetchLast(c)
  \/ \E c \in ChatIds : FetchMessages(c)
  \/ \E c \in ChatIds : FetchLabels(c)

SpecRace == InitLoadedNoFail /\ [][NextRace]_vars

\* --------------------------------------------------------------- claims
\* what the sidebar shows of chat c: its entry in chats
Loaded(c) == ChatIdx(chats, c) # 0
EntryOf(c) == heapC[chats[ChatIdx(chats, c)]]
HistoryOf(c) == IF Loaded(c) THEN heapA[EntryOf(c).messages] ELSE << >>
UnreadOfChat(c) == IF Loaded(c) THEN EntryOf(c).unreadCount ELSE 0
Quiet == handlers = << >> /\ marks = << >>
EventsOf(c) ==
  { m \in MsgsOfChat(c) : dbMsg[m].author # Me /\ delivered[m] > 0 }

\* C1: when a message id was delivered more than once (one delivery after
\* the other, or overlapping at the sender lookup) and every handler has
\* returned, the chat's history holds that id exactly once (at least once
\* only when no sender lookup failed).
C1_ExactlyOnce ==
  \A m \in MsgIds :
    (/\ Inserted(m)
     /\ delivered[m] > 1
     /\ handlers = << >>
     /\ Loaded(dbMsg[m].chat))
    => /\ Count(HistoryOf(dbMsg[m].chat), m) <= 1
       /\ fails = 0 => Count(HistoryOf(dbMsg[m].chat), m) >= 1

\* C2: in every reachable state the focused chat's unread count is 0, in
\* the focused object, in its entry of chats and in the unreadCounts map.
C2_FocusedUnreadZero ==
  activeChat # NoAddr
  => /\ heapC[activeChat].unreadCount = 0
     /\ UnreadOfChat(ActiveId) = 0
     /\ unreadCounts[ActiveId] = 0

\* C3: when the handler of an event from another user runs to its end for a
\* loaded chat that is not focused, the message id being neither remembered
\* as just sent nor in the chat's history, the chat's unread count grows by
\* exactly 1 and its history by exactly 1.
C3_Case(i) ==
  /\ i \in DOMAIN handlers
  /\ LET m == handlers[i].msg
         c == dbMsg[m].chat
     IN /\ dbMsg[m].author # Me
        /\ Loaded(c)
        /\ ActiveId # c
        /\ activeChatRef # c
        /\ lastMessageIdRef # m
        /\ m \notin Range(HistoryOf(c))

C3_EventCounts ==
  [][\A i \in 1..MaxHandlers : \A c \in ChatIds :
       (C3_Case(i) /\ c = dbMsg[handlers[i].msg].chat /\ HandlerDone(i))
       => /\ UnreadOfChat(c)' = UnreadOfChat(c) + 1
          /\ unreadCounts'[c] = unreadCounts[c] + 1
          /\ Len(HistoryOf(c)') = Len(HistoryOf(c)) + 1]_vars

\* C4: once every handler and every watermark write has returned, a chat
\* that is not focused and was never marked read shows as unread count the
\* number N of events from other users it received, and a focused chat
\* shows 0 and holds all N messages in its history.
C4_CountThenClear ==
  Quiet =>
    \A c \in ChatIds :
      Loaded(c) =>
        /\ (/\ ActiveId # c
            /\ dbLastRead[c] = 0
            /\ fails = 0
            /\ \A m \in MsgsOfChat(c) : delivered[m] <= 1)
           => UnreadOfChat(c) = Cardinality(EventsOf(c))
        /\ ActiveId = c
           => /\ UnreadOfChat(c) = 0
              /\ fails = 0 => EventsOf(c) \subseteq Range(HistoryOf(c))

\* C5: the step that focuses a chat with a nonzero unread count leaves the
\* in-memory count at 0, before the watermark write has answered.
C5_FocusResetsNow ==
  [][\A c \in ChatIds :
       (UnreadOfChat(c) > 0 /\ Select(c))
       => (UnreadOfChat(c)' = 0 /\ unreadCounts'[c] = 0)]_vars

\* C6: an event whose id is the remembered just-sent id is discarded: the
\* collection, the focus, the unread counts and the histories stay as they
\* are, and no handler is left to append the message later.
C6_EchoDiscarded ==
  [][\A m \in MsgIds :
       (lastMessageIdRef = m /\ Deliver(m))
       => UNCHANGED << chats, activeChat, unreadCounts, heapC, heapA,
                       handlers, marks, activeChatRef >>]_vars

\* the echo of the first message sent arrived while it was remembered (no
\* refresh starts before the first handleMessageSent, so an echo that came
\* earlier would have left a handler or the message in the history)
C6_EchoSeen ==
  /\ lastMessageIdRef = 1
  /\ delivered[1] > 0
  /\ handlers = << >>
  /\ 1 \notin Range(HistoryOf(dbMsg[1].chat))

\* C7: the remembered id, when set, is the most recently sent id and the
\* timer that clears it is still pending: after the timer of M fired the
\* remembered id is not M, and after the timer of the most recent send
\* fired it is none.
C7_MemoryCleared ==
  lastMessageIdRef # NoMsg
  => /\ timers # << >>
     /\ lastMessageIdRef = Last(timers)
     /\ \A i \in 1..(Len(timers) - 1) : timers[i] # lastMessageIdRef

\* two messages were sent and both timers have fired
C7_BothFired ==
  /\ \A m \in MsgIds : Inserted(m)
  /\ sends = << >>
  /\ timers = << >>
  /\ draft = IdleDraft
  /\ lastMessageIdRef = NoMsg

\* a refresh sets the collection and returns without an error
RefreshCompletes ==
  /\ fetch.phase # "idle"
  /\ fetch'.phase = "idle"
  /\ error' = "null"
LoadedIds == { heapC[chats[i]].id : i \in DOMAIN chats }

\* C8: when a refresh completes, a focused chat that is absent from the
\* refreshed collection (the empty collection included) leaves the focus
\* none, and one that is present leaves the focus on its refreshed object.
C8_FocusFollowsRefresh ==
  [][(RefreshCompletes /\ activeChat # NoAddr)
     => IF ActiveId \notin LoadedIds'
        THEN activeChat' = NoAddr
        ELSE activeChat' \in Range(chats') /\ ActiveId' = ActiveId]_vars

MissingColumnAnswer ==
  /\ fetch.phase = "parts"
  /\ fetch.avail
  /\ ~dbHasLastRead
  /\ FetchParts
CollectionUnchanged ==
  UNCHANGED << chats, activeChat, unreadCounts, heapC, heapA >>
RefreshAborts ==
  /\ fetch'.phase = "idle"
  /\ error' # "null"
  /\ CollectionUnchanged

\* C9 as stated: whenever the participants query or the chats query of a
\* refresh fails, the refresh aborts, an error is shown, and the
\* collection, the focus and the unread counts are as before.
C9_AnyFailureAborts ==
  [][(FetchPartsFail \/ FetchDetailsFail \/ MissingColumnAnswer)
     => RefreshAborts]_vars

\* C9 amended: a failure of the participants query or the chats query that
\* does not mention last_read aborts the refresh with an error shown and
\* the collection, the focus and the unread counts as before; the
\* missing-column failure of the participants query shows no error and
\* does not abort: the watermark flag is cleared and the same query is
\* issued again, the collection still as before.
C9_FailureAbortsOrRetries ==
  [][/\ (FetchPartsFail \/ FetchDetailsFail) => RefreshAborts
     /\ MissingColumnAnswer
        => /\ fetch' = fetch
           /\ error' = "null"
           /\ ~isLastReadAvailable'
           /\ CollectionUnchanged
     /\ ((\E av \in BOOLEAN : FetchStart(av)) \/ FetchDetails)
        => CollectionUnchanged]_vars

\* a refresh was aborted while chats were loaded
C9_AbortedLoaded ==
  /\ error # "null"
  /\ fetch.phase = "idle"
  /\ chats # << >>

PerChatFailure ==
  /\ fetch.phase = "perchat"
  /\ fails' > fails
  /\ \E c \in ChatIds : FetchLast(c) \/ FetchMessages(c) \/ FetchLabels(c)

\* C10: a per-chat query that fails does not end the refresh; it touches
\* nothing the refresh holds for the other chats; and the completed refresh
\* has every chat of the membership, a chat whose query failed with the
\* empty or default value of that detail, every other detail as read.
C10_DetailFailureIsLocal ==
  [][/\ PerChatFailure => (fetch'.phase = "perchat" \/ RefreshCompletes)
     /\ \A c \in ChatIds :
          (/\ fetch.phase = "perchat"
           /\ fetch'.phase = "perchat"
           /\ fetch' # fetch
           /\ FetchLast(c) \/ FetchMessages(c) \/ FetchLabels(c))
          => \A d \in ChatIds \ {c} :
               /\ fetch'.last[d] = fetch.last[d]
               /\ fetch'.names[d] = fetch.names[d]
               /\ fetch'.msgs[d] = fetch.msgs[d]
               /\ fetch'.msgsNull[d] = fetch.msgsNull[d]
               /\ fetch'.out[d] = fetch.out[d]
     /\ \A c \in ChatIds :
          (fetch.stage[c] = "msgs" /\ fails' = fails /\ FetchMessages(c))
          => /\ fetch'.msgs[c] = SortByTs(MsgsOfChat(c))
             /\ fetch'.names[c] = NamesOf(c)
     /\ (RefreshCompletes /\ fetch.phase = "perchat")
        => /\ Len(chats') = Len(Members(fetch))
           /\ \A i \in 1..Len(Members(fetch)) :
                \E d \in {Members(fetch)[i]} :
                  /\ heapC'[chats'[i]].id = d
                  /\ heapA'[heapC'[chats'[i]].messages] = fetch.msgs[d]
                  /\ fetch.msgsNull[d]
                     => /\ heapA'[heapC'[chats'[i]].messages] = << >>
                        /\ heapC'[chats'[i]].unreadCount = 0
                  /\ heapC'[chats'[i]].participants = fetch.names[d]
                  /\ fetch.names[d] \in {<< >>, ParticipantNames[d], NamesOf(d)}
                  /\ heapC'[chats'[i]].lastMessage = fetch.last[d]
                  /\ fetch.last[d] = NoMsg
                     => heapC'[chats'[i]].lastMessageTime = ChatCreatedAt
                  /\ heapC'[chats'[i]].labels
                       \in {LabelsOf(d, FALSE, FALSE), LabelsOf(d, TRUE, FALSE),
                            LabelsOf(d, TRUE, TRUE)}]_vars

\* a completed refresh left one chat without participants (its participants
\* query failed) next to a chat that has them
C10_OneChatDegraded ==
  /\ fetch.phase = "idle"
  /\ error = "null"
  /\ \E i \in DOMAIN chats : \E j \in DOMAIN chats :
       /\ heapC[chats[i]].participants = << >>
       /\ heapC[chats[j]].participants # << >>

\* refreshes, with the watermark writes they start answering or failing
NextRerun ==
  \/ NextRefresh
  \/ \E i \in 1..MaxMarks : MarkFail(i)

SpecRerun == Init /\ [][NextRerun]_vars

\* the collection is what a refresh without a failing query makes of the
\* backend as it is now
Faithful ==
  /\ Len(chats) = Cardinality(dbMember)
  /\ \A i \in DOMAIN chats :
       \E c \in {heapC[chats[i]].id} :
         /\ c \in dbMember
         /\ \A j \in 1..(i - 1) : heapC[chats[j]].id # c
         /\ heapA[heapC[chats[i]].messages] = SortByTs(MsgsOfChat(c))
         /\ heapC[chats[i]].participants = ParticipantNames[c]
         /\ heapC[chats[i]].labels = LabelsOf(c, FALSE, FALSE)
         /\ IF MsgsOfChat(c) = {} THEN heapC[chats[i]].lastMessage = NoMsg
            ELSE heapC[chats[i]].lastMessage \in LatestOf(c)
NoWatermark == dbLastRead = [c \in ChatIds |-> 0]

\* C11: a refresh that completes on a collection an earlier refresh made of
\* the same backend (no watermark was ever written, no write is in flight)
\* yields the same chats, the same histories and the same unread count for
\* every chat.
C11_RefreshIdempotent ==
  [][(/\ fetch.phase = "perchat"
      /\ RefreshCompletes
      /\ chats # << >>
      /\ marks = << >>
      /\ NoWatermark
      /\ Faithful
      /\ Faithful')
     => \A c \in ChatIds :
          /\ Loaded(c)' = Loaded(c)
          /\ HistoryOf(c)' = HistoryOf(c)
          /\ UnreadOfChat(c)' = UnreadOfChat(c)]_vars

\* refreshes of loaded chats while time passes, messages arrive, the focus
\* moves and watermarks are written; no query fails
NextWatermark ==
  \/ Tick
  \/ \E c \in ChatIds : OtherInsert(c, now)
  \/ \E c \in ChatIds : Select(c)
  \/ \E i \in 1..MaxMarks : MarkDone(i)
  \/ \E av \in BOOLEAN : FetchStart(av)
  \/ FetchParts
  \/ FetchDetails
  \/ \E c \in ChatIds : FetchLast(c)
  \/ \E c \in ChatIds : FetchMessages(c)
  \/ \E c \in ChatIds : FetchLabels(c)

SpecWatermark == InitLoadedNoFail /\ [][NextWatermark]_vars

\* C12: the unread count a refresh computes for a chat that is not focused
\* is, when the participants query returned a watermark for the chat, the
\* number of the chat's messages by other users stamped strictly after the
\* watermark, and otherwise the number of all its messages by other users.
C12_RefreshUnread ==
  [][\A c \in ChatIds :
       (fetch.phase = "perchat" /\ fetch.stage[c] = "labels"
        /\ activeChatRef # c /\ FetchLabels(c))
       => /\ unreadCounts'[c] =
               IF fetch.parts[c] # 0
               THEN Cardinality({ m \in Range(fetch.msgs[c]) :
                                    /\ dbMsg[m].author # Me
                                    /\ dbMsg[m].ts > fetch.parts[c] })
               ELSE Cardinality({ m \in Range(fetch.msgs[c]) :
                                    dbMsg[m].author # Me })
          /\ fetch'.phase = "idle"
             => UnreadOfChat(c)' = unreadCounts'[c]]_vars

\* a refresh counted 1 for an unfocused chat that holds a message stamped
\* at its watermark and a later one, both by another user
C12_EqualNotCounted ==
  \E c \in ChatIds :
    /\ Loaded(c)
    /\ ActiveId # c
    /\ fetch.phase = "idle"
    /\ dbLastRead[c] # 0
    /\ \E m \in Range(HistoryOf(c)) :
         dbMsg[m].author # Me /\ dbMsg[m].ts = dbLastRead[c]
    /\ \E m \in Range(HistoryOf(c)) :
         dbMsg[m].author # Me /\ dbMsg[m].ts > dbLastRead[c]
    /\ UnreadOfChat(c) = 1

\* loaded chats in a deployment that loses the last_read column: messages
\* are inserted, the focus moves, watermark writes answer and refreshes run
NextDegraded ==
  \/ DropColumn
  \/ \E c \in ChatIds : OtherInsert(c, now)
  \/ \E c \in ChatIds : Select(c)
  \/ \E i \in 1..MaxMarks : MarkDone(i)
  \/ \E av \in BOOLEAN : FetchStart(av)
  \/ FetchParts
  \/ FetchDetails
  \/ \E c \in ChatIds : FetchLast(c)
  \/ \E c \in ChatIds : FetchMessages(c)
  \/ \E c \in ChatIds : FetchLabels(c)

SpecDegraded == InitLoadedNoFail /\ [][NextDegraded]_vars

\* the same deployment without refreshes: realtime events, focus changes and
\* watermark writes
NextDropped ==
  \/ DropColumn
  \/ \E c \in ChatIds : OtherInsert(c, now)
  \/ \E m \in MsgIds : Deliver(m)
  \/ \E i \in 1..MaxHandlers : HandlerDone(i)
  \/ \E c \in ChatIds : Select(c)
  \/ \E i \in 1..MaxMarks : MarkDone(i)

SpecDropped == InitLoadedNoFail /\ [][NextDropped]_vars

OthersIn(h) == Cardinality({ i \in DOMAIN h : dbMsg[h[i]].author # Me })

C14_NoWriteAfterSignature ==
  [][~isLastReadAvailable
     => \A k \in 1..MaxMarks :
          Len(marks') # Len(marks) + k]_vars

\* C15: after the participants query was answered with the missing-column
\* error the refresh issues it again without requesting the watermark (so
\* the retry can succeed and the refresh ends).
C15_RetryDropsWatermark ==
  [][MissingColumnAnswer => ~fetch'.avail]_vars

\* C16: when a chat is focused and no handler or watermark write is in
\* flight, the focused object and the chat's entry in chats have the same
\* history, the same last message and the same last-message time.
C16_FocusAgreesWithEntry ==
  (Quiet /\ activeChat # NoAddr /\ Loaded(ActiveId))
  => /\ heapA[heapC[activeChat].messages] = HistoryOf(ActiveId)
     /\ heapC[activeChat].lastMessage = EntryOf(ActiveId).lastMessage
     /\ heapC[activeChat].lastMessageTime = EntryOf(ActiveId).lastMessageTime

\* a create handler of client u returns without an error
Created(u, kind) ==
  /\ sidebar[u].phase \in { kind \o ":find", kind \o ":rpc",
                            kind \o ":insertParts" }
  /\ sidebar'[u].phase = "idle"
  /\ sidebar'[u].error = "null"

\* C17: whenever a creation of the direct chat of Me and Other returns
\* without an error (first or repeated, from either side, through the
\* procedures or through the manual fallback), the backend holds exactly
\* one direct chat with the participant rows of both users.
C17_OneDirectChat ==
  [][\A u \in Clients :
       Created(u, "chat") => Cardinality(DirectChats(Me, Other)') = 1]_vars

\* a request of the create handler of client u, waiting in phase ph, fails
RequestFails(u, ph) ==
  /\ sidebar[u].phase = ph
  /\ sidebar'[u] # sidebar[u]
  /\ fails' = fails + 1

\* C18: when the participants insert of the direct-chat fallback fails after
\* the chat insert succeeded, the handler returns with the error shown, and
\* the chat row it inserted stays in the backend without participant rows:
\* nothing is deleted.
C18_OrphanChatLeft ==
  [][\A u \in Clients :
       RequestFails(u, "chat:insertParts")
       => /\ sidebar'[u].phase = "idle"
          /\ sidebar'[u].error = "Failed to add participants"
          /\ dbChat' = dbChat
          /\ dbChat'[sidebar[u].chatId].exists
          /\ dbChat'[sidebar[u].chatId].members = {}]_vars

\* the fallback of Me has failed at its second step and left its row behind
C18_OrphanSeen ==
  /\ sidebar[Me].error = "Failed to add participants"
  /\ \E c \in ChatIds : /\ dbChat[c].exists
                         /\ ~dbChat[c].isGroup
                         /\ dbChat[c].members = {}

\* the group row the create-group handler of client u is to produce
GroupRowOf(u, members) ==
  [exists |-> TRUE, isGroup |-> TRUE, name |-> sidebar[u].name,
   members |-> members]
OtherRowsKept(c) == \A d \in ChatIds \ {c} : dbChat'[d] = dbChat[d]

\* C19: group creation is never deduplicated.  Whatever groups exist, a
\* create-group operation that returns without an error has added exactly
\* one chat, whose participants are the creator and exactly the selected
\* users: the procedure adds the chat and its participants in one step; the
\* fallback adds one new chat row and then gives that row its participants.
C19_GroupAlwaysAdded ==
  [][\A u \in Clients :
       /\ (sidebar[u].phase = "group:rpc" /\ Created(u, "group"))
          => \E c \in ChatIds :
               /\ ~dbChat[c].exists
               /\ dbChat'[c] = GroupRowOf(u, {u} \cup sidebar[u].sel)
               /\ OtherRowsKept(c)
       /\ (sidebar[u].phase = "group:insertChat"
           /\ sidebar'[u].phase = "group:insertParts")
          => \E c \in ChatIds :
               /\ ~dbChat[c].exists
               /\ c = sidebar'[u].chatId
               /\ dbChat'[c] = GroupRowOf(u, {})
               /\ OtherRowsKept(c)
       /\ (sidebar[u].phase = "group:insertParts" /\ Created(u, "group"))
          => \E c \in {sidebar[u].chatId} :
               /\ dbChat[c] = GroupRowOf(u, {})
               /\ dbChat'[c] = GroupRowOf(u, {u} \cup sidebar[u].sel)
               /\ OtherRowsKept(c)]_vars

\* two groups with the same name and the same members, both created by Me
\* in a run in which one request failed
C19_TwinGroups ==
  /\ sidebar[Me].phase = "idle"
  /\ sidebar[Me].error = "null"
  /\ fails = 1
  /\ dbChat["c1"] = [exists |-> TRUE, isGroup |-> TRUE, name |-> "team",
                     members |-> {Me, Other, Third}]
  /\ dbChat["c2"] = dbChat["c1"]

\* the label query step of a refresh for chat c, and the labels it gives
\* the refreshed chat
LabelStep(c) ==
  /\ fetch.phase = "perchat"
  /\ fetch.stage[c] = "labels"
  /\ fetch'.stage[c] # "labels"
RefreshedLabels(c) ==
  IF fetch.phase = "idle" THEN EntryOf(c).labels ELSE fetch.out[c].labels
IdLabels(c) == SelectSeq(NewLabelRows[c], LAMBDA r : r.id # "null")
NameLabel(n) == [id |-> n, name |-> n, color |-> DefaultColor]
NameLabels(c) == [i \in DOMAIN OldLabelRows[c] |-> NameLabel(OldLabelRows[c][i])]

\* C20: the labels of a refreshed chat are those of the id-based rows when
\* that query succeeds with at least one row; they are taken from the
\* name-based rows only when the id-based query gave no rows or failed, and
\* then every name-based row gives one label with id = name = the stored
\* name and the default color (no id-based rows and two name-based rows
\* give two labels).
C20_LabelSource ==
  [][\A c \in ChatIds :
       LabelStep(c)
       => /\ (fails' = fails /\ Len(NewLabelRows[c]) > 0)
             => RefreshedLabels(c)' = IdLabels(c)
          /\ (fails' = fails /\ Len(NewLabelRows[c]) = 0)
             => /\ RefreshedLabels(c)' = NameLabels(c)
                /\ Len(RefreshedLabels(c)') = Len(OldLabelRows[c])
          /\ (fails' = fails + 1 /\ Len(NewLabelRows[c]) > 0)
             => RefreshedLabels(c)' = NameLabels(c)
          /\ RefreshedLabels(c)' \in {IdLabels(c), NameLabels(c), << >>}
          /\ (NameLabels(c) # << >> /\ RefreshedLabels(c)' = NameLabels(c))
             => (fails' > fails \/ Len(NewLabelRows[c]) = 0)]_vars

\* a refresh has loaded c2, which has no id-based rows, with the two labels
\* of its name-based rows, and c1 with the label of its id-based row
C20_FallbackLabels ==
  /\ fetch.phase = "idle"
  /\ Loaded("c1") /\ Loaded("c2")
  /\ Len(NewLabelRows["c2"]) = 0
  /\ EntryOf("c2").labels = << NameLabel("work"), NameLabel("family") >>
  /\ EntryOf("c1").labels = << [id |-> "l1", name |-> "vip", color |-> "red"] >>

\* C21: the flag isLastReadAvailable is true when the session starts, and
\* once it is false (set by a refresh or by a watermark write that met the
\* missing-column error) no step makes it true again.
C21_FlagMonotone ==
  /\ isLastReadAvailable = TRUE
  /\ [][~isLastReadAvailable => ~isLastReadAvailable']_vars

\* the flag is false while a later refresh, started without the watermark,
\* has read the participant rows
C21_DegradedRefreshRuns ==
  /\ ~isLastReadAvailable
  /\ ~dbHasLastRead
  /\ fetch.phase = "perchat"
  /\ ~fetch.avail

\* C22: when the INSERT event of a message arrives whose chat is not in the
\* collection, the collection, the focused chat, the unread counts and the
\* just-sent memory stay as they are, and neither a sender lookup nor a
\* watermark write is issued.
C22_UnknownChatIgnored ==
  [][\A m \in MsgIds :
       (/\ delivered'[m] = delivered[m] + 1
        /\ ChatIdx(chats, dbMsg[m].chat) = 0)
       => UNCHANGED << chats, activeChat, heapC, heapA, unreadCounts,
                       lastMessageIdRef, activeChatRef, handlers, marks >>]_vars

\* the event of a message of c2 has been delivered to a client that holds
\* c1 only
C22_UnknownChatEvent ==
  \E m \in MsgIds :
    /\ Inserted(m)
    /\ dbMsg[m].chat = "c2"
    /\ delivered[m] > 0
    /\ ~Loaded("c2")
    /\ Loaded("c1")

\* the messages of a history with the greatest created_at
NewestIn(h) ==
  { m \in Range(h) : \A k \in Range(h) : dbMsg[k].ts <= dbMsg[m].ts }

\* C23: in every state, every chat of the collection with a non-empty
\* history shows as its last message a message of greatest created_at in
\* that history, with that created_at as its last-message time, also after
\* the event of a message older than one already in the history.
C23_LastIsNewest ==
  \A c \in ChatIds :
    (Loaded(c) /\ HistoryOf(c) # << >>)
    => /\ EntryOf(c).lastMessage \in NewestIn(HistoryOf(c))
       /\ \A m \in NewestIn(HistoryOf(c)) :
            EntryOf(c).lastMessageTime = dbMsg[m].ts

\* C24: nothing orders a refresh and the realtime handler.  A refresh that
\* completes puts in place of every chat's history exactly the messages it
\* read, and counts as unread at most the messages of others among them, so
\* a message that an event appended after the read, and its unread
\* increment, are gone once the refresh completes.
C24_RefreshReplaces ==
  [][\A c \in ChatIds :
       (RefreshCompletes /\ fetch.phase = "perchat" /\ fetch.parts[c] >= 0)
       => /\ HistoryOf(c)' = fetch.msgs[c]
          /\ UnreadOfChat(c)' <= Cardinality(FromOthers(fetch.msgs[c]))]_vars

\* the only event delivered so far was applied by its handler, and the
\* collection a refresh has put in place since lacks the message and its
\* unread increment
C24_MessageDropped ==
  \E m \in MsgIds :
    /\ delivered[m] = 1
    /\ \A k \in MsgIds \ {m} : delivered[k] = 0
    /\ handlers = << >>
    /\ fetch.phase = "idle"
    /\ dbMsg[m].chat = "c2"
    /\ Loaded("c2")
    /\ m \notin Range(HistoryOf("c2"))
    /\ UnreadOfChat("c2") = 0

\* C25: the handler of a message event reads and writes the collection
\* atomically: as long as a handler waits for its sender lookup, the
\* collection is still the one it read, so what it writes is never older
\* than what it replaces.  (ContentOf: the chats of a list with their
\* histories, whatever objects hold them.)
ContentOf(list) ==
  [k \in DOMAIN list |-> << heapC[list[k]], heapA[heapC[list[k]].messages] >>]
C25_HandlerSnapshotCurrent ==
  \A i \in DOMAIN handlers : ContentOf(handlers[i].snap) = ContentOf(chats)

\* C26: a focus change made while a refresh is in flight survives the
\* refresh: when the refresh completes, the focused chat still has the id of
\* the chat that was focused just before, the one the user selected last.
C26_FocusSurvivesRefresh ==
  [][(RefreshCompletes /\ activeChat # NoAddr)
     => /\ activeChat' # NoAddr
        /\ (heapC[activeChat].id)' = heapC[activeChat].id]_vars

\* C27: the two representations of the unread state agree: whenever no
\* handler, mark-read request or refresh is pending, the unreadCounts map
\* holds for every chat of the collection that chat's unreadCount field.
C27_UnreadViewsAgree ==
  (Quiet /\ fetch.phase = "idle")
  => \A c \in ChatIds : Loaded(c) => unreadCounts[c] = UnreadOfChat(c)

\* C28: with the watermark available, whenever nothing is pending the unread
\* count of every chat that is not focused is the number of messages of
\* other users in its history that are later than the watermark the backend
\* holds for the user and that chat; a mark-read completion in particular
\* never takes away the count of a message appended after its write was
\* issued.
C28_UnreadMatchesWatermark ==
  (Quiet /\ fetch.phase = "idle" /\ isLastReadAvailable /\ dbHasLastRead)
  => \A c \in ChatIds :
       (Loaded(c) /\ activeChatRef # c)
       => UnreadOfChat(c) =
            Cardinality({m \in Range(HistoryOf(c)) :
                           dbMsg[m].author # Me /\ dbMsg[m].ts > dbLastRead[c]})

\* C29: once the insert of a message of the user has succeeded,
\* handleMessageSent has run for it and its realtime echo has been
\* delivered, the message eventually stands exactly once in the history of
\* its chat, whether or not the refresh that follows the send fails.
SentAndEchoed(m) ==
  /\ Inserted(m)
  /\ dbMsg[m].author = Me
  /\ \A i \in DOMAIN sends : sends[i].msg # m
  /\ delivered[m] > 0
OnceInHistory(m) ==
  Len(SelectSeq(HistoryOf(dbMsg[m].chat), LAMBDA x : x = m)) = 1
C29_SentMessageAppears ==
  \A m \in MsgIds : SentAndEchoed(m) ~> OnceInHistory(m)

\* C30: no message row is ever inserted with a blank text (empty once
\* trimmed) and no attachment, also when files were selected and every
\* upload failed.
C30_NoEmptyMessage ==
  \A m \in MsgIds :
    Inserted(m) => ~(Trim(dbMsg[m].content) = << >> /\ dbMsg[m].attachments = 0)
====
